---- MODULE Spec2Model ----
(***************************************************************************)
(* A model of the query-routing core of the financial co-pilot:            *)
(* Orchestrator.process_query with its specialist agents, the side         *)
(* channels of GCPClient, and the Risk Scorer (assess_financial_risk).     *)
(*                                                                         *)
(* Text is modelled as a sequence of one-character strings, so that        *)
(* upper(), strip(), split(","), isalpha() and the substring test `in`     *)
(* are computed as Python computes them.                                   *)
(* Metric values are fixed-point numbers in hundredths (0.05 is 5).        *)
(***************************************************************************)
EXTENDS Integers, Sequences, FiniteSets, TLC

(***************************************************************************)
(* Bounds of the model.                                                    *)
(***************************************************************************)
\* the longest TickerSet the model's ticker-extraction outputs name
MaxTickers == 2

(***************************************************************************)
(* Text: str methods used by the orchestrator.                             *)
(***************************************************************************)
LowerCase ==
  <<"a", "b", "c", "d", "e", "f", "g", "h", "i", "j", "k", "l", "m", "n", "o", "p", "q", "r",
   "s", "t", "u", "v", "w", "x", "y", "z">>
UpperCase ==
  <<"A", "B", "C", "D", "E", "F", "G", "H", "I", "J", "K", "L", "M", "N", "O", "P", "Q", "R",
   "S", "T", "U", "V", "W", "X", "Y", "Z">>
Letters == {LowerCase[i] : i \in 1..26} \cup {UpperCase[i] : i \in 1..26}
Whitespace == {" ", "\n", "\t"}

\* str.upper() on one character
UpperChar(c) ==
  IF \E i \in 1..26 : LowerCase[i] = c
  THEN UpperCase[CHOOSE i \in 1..26 : LowerCase[i] = c]
  ELSE c

\* str.upper()
Upper(s) == [i \in 1..Len(s) |-> UpperChar(s[i])]

\* str.strip(): leading and trailing whitespace removed
RECURSIVE LStrip(_)
LStrip(s) == IF s # <<>> /\ Head(s) \in Whitespace THEN LStrip(Tail(s)) ELSE s
RECURSIVE RStrip(_)
RStrip(s) ==
  IF s # <<>> /\ s[Len(s)] \in Whitespace THEN RStrip(SubSeq(s, 1, Len(s) - 1)) ELSE s
Strip(s) == RStrip(LStrip(s))

\* str.isalpha(): non-empty and every character alphabetic
IsAlpha(s) == s # <<>> /\ \A i \in 1..Len(s) : s[i] \in Letters

\* str.replace(a, b) for single characters
ReplaceChar(s, a, b) == [i \in 1..Len(s) |-> IF s[i] = a THEN b ELSE s[i]]

\* str.split(","): the pieces between the commas, empty pieces kept
RECURSIVE SplitFrom(_, _, _)
SplitFrom(s, i, cur) ==
  IF i > Len(s) THEN <<cur>>
  ELSE IF s[i] = "," THEN <<cur>> \o SplitFrom(s, i + 1, <<>>)
  ELSE SplitFrom(s, i + 1, Append(cur, s[i]))
SplitComma(s) == SplitFrom(s, 1, <<>>)

\* mutant of Contains: the label compared for equality with the keyword
Contains_Equality(s, kw) == s = kw

\* the test `kw in s` on strings: kw occurs as a contiguous substring
Contains(s, kw) ==
  \E i \in 1..(Len(s) - Len(kw) + 1) : SubSeq(s, i, i + Len(kw) - 1) = kw

\* ", ".join(parts)
RECURSIVE JoinComma(_)
JoinComma(parts) ==
  IF parts = <<>> THEN <<>>
  ELSE IF Len(parts) = 1 THEN parts[1]
  ELSE parts[1] \o <<",", " ">> \o JoinComma(Tail(parts))

(***************************************************************************)
(* Orchestrator: post-processing of the two classification calls.          *)
(***************************************************************************)
NONE_LITERAL == <<"N", "O", "N", "E">>

\* mutant of _extract_tickers: the tokens tested stripped but kept unstripped
_extract_tickers_Unstripped(raw) ==
  LET result == Upper(Strip(raw))
      pieces == SplitComma(result)
  IN  IF result = NONE_LITERAL \/ result = <<>> THEN <<>>
      ELSE SelectSeq(pieces, LAMBDA t : IsAlpha(Strip(t)))

\* Orchestrator._extract_tickers, from the raw text generate() returned
_extract_tickers(raw) ==
  LET result == Upper(Strip(raw))
      pieces == SplitComma(result)
      kept   == SelectSeq(pieces, LAMBDA t : IsAlpha(Strip(t)))
  IN  IF result = NONE_LITERAL \/ result = <<>> THEN <<>>
      ELSE [i \in 1..Len(kept) |-> Strip(kept[i])]

\* Orchestrator._classify_intent, from the raw text generate() returned
_classify_intent(raw) == ReplaceChar(Upper(Strip(raw)), " ", "_")

\* routing keywords of process_query
KW_INVESTMENT_THESIS ==
  <<"I", "N", "V", "E", "S", "T", "M", "E", "N", "T", "_", "T", "H", "E", "S", "I", "S">>
KW_PEER_COMPARISON == <<"P", "E", "E", "R", "_", "C", "O", "M", "P", "A", "R", "I", "S", "O", "N">>
KW_RISK == <<"R", "I", "S", "K">>
KW_SENTIMENT == <<"S", "E", "N", "T", "I", "M", "E", "N", "T">>
KW_EARNINGS == <<"E", "A", "R", "N", "I", "N", "G", "S">>
KW_DOCUMENT == <<"D", "O", "C", "U", "M", "E", "N", "T">>
KW_MARKET == <<"M", "A", "R", "K", "E", "T">>
GEN_PLACEHOLDER == <<"G", "E", "N">>

\* mutant of TickerLabel: the placeholder for the empty TickerSet forgotten
TickerLabel_NoPlaceholder(tickers) == JoinComma(tickers)

\* the label process_query logs: ", ".join(tickers) if tickers else "GEN"
TickerLabel(tickers) == IF tickers # <<>> THEN JoinComma(tickers) ELSE GEN_PLACEHOLDER

(***************************************************************************)
(* Inputs: what the model answers to the two classification prompts.       *)
(***************************************************************************)
Symbols == {<<"A">>, <<"M", "S">>}

RECURSIVE SeqsUpTo(_, _)
SeqsUpTo(S, n) ==
  IF n = 0 THEN {<<>>}
  ELSE LET shorter == SeqsUpTo(S, n - 1)
       IN  shorter \cup {Append(q, x) : q \in {r \in shorter : Len(r) = n - 1}, x \in S}

\* raw answers of the model to the ticker-extraction prompt
RAW_NONE == <<"N", "O", "N", "E">>
\* " none\n"
RAW_NONE_LOWER == <<" ", "n", "o", "n", "e", "\n">>
\* "a, MS 1, ms": the middle token is not alphabetic
RAW_MIXED == <<"a", ",", " ", "M", "S", " ", "1", ",", " ", "m", "s">>
\* return f"Error generating response: {str(e)}"
ERROR_PREFIX ==
  <<"E", "r", "r", "o", "r", " ", "g", "e", "n", "e", "r", "a", "t", "i", "n", "g", " ", "r",
   "e", "s", "p", "o", "n", "s", "e", ":", " ">>
ERR_429 == <<"4", "2", "9">>
\* "Resource exhausted, retry": an error text with a comma
ERR_EXHAUSTED_RETRY ==
  <<"R", "e", "s", "o", "u", "r", "c", "e", " ", "e", "x", "h", "a", "u", "s", "t", "e", "d",
   ",", " ", "r", "e", "t", "r", "y">>
\* what generate returns to _extract_tickers when the generation call fails
RawTickerErrors == {ERROR_PREFIX \o ERR_429, ERROR_PREFIX \o ERR_EXHAUSTED_RETRY}
RawTickerOutputs ==
  {JoinComma(q) : q \in SeqsUpTo(Symbols, MaxTickers) \ {<<>>}}
  \cup {RAW_NONE, RAW_NONE_LOWER, <<>>, RAW_MIXED}
  \cup RawTickerErrors

\* raw answers of the model to the intent prompt: the closed set of labels
LBL_INVESTMENT_THESIS ==
  <<"I", "N", "V", "E", "S", "T", "M", "E", "N", "T", "_", "T", "H", "E", "S", "I", "S">>
LBL_PEER_COMPARISON == <<"P", "E", "E", "R", "_", "C", "O", "M", "P", "A", "R", "I", "S", "O", "N">>
LBL_RISK_ASSESSMENT == <<"R", "I", "S", "K", "_", "A", "S", "S", "E", "S", "S", "M", "E", "N", "T">>
LBL_SENTIMENT == <<"S", "E", "N", "T", "I", "M", "E", "N", "T">>
LBL_EARNINGS == <<"E", "A", "R", "N", "I", "N", "G", "S">>
LBL_DOCUMENT_ANALYSIS ==
  <<"D", "O", "C", "U", "M", "E", "N", "T", "_", "A", "N", "A", "L", "Y", "S", "I", "S">>
LBL_MARKET_ANALYSIS == <<"M", "A", "R", "K", "E", "T", "_", "A", "N", "A", "L", "Y", "S", "I", "S">>
LBL_GENERAL == <<"G", "E", "N", "E", "R", "A", "L">>
ClosedIntents ==
  {LBL_INVESTMENT_THESIS, LBL_PEER_COMPARISON, LBL_RISK_ASSESSMENT, LBL_SENTIMENT,
   LBL_EARNINGS, LBL_DOCUMENT_ANALYSIS, LBL_MARKET_ANALYSIS, LBL_GENERAL}
\* near-miss answers: " risk assessment detail\n"
RAW_RISK_DETAIL ==
  <<" ", "r", "i", "s", "k", " ", "a", "s", "s", "e", "s", "s", "m", "e", "n", "t", " ", "d",
   "e", "t", "a", "i", "l", "\n">>
\* "Market Risk": two keywords
RAW_MARKET_RISK == <<"M", "a", "r", "k", "e", "t", " ", "R", "i", "s", "k">>
\* "peer comparison, investment thesis": two keywords
RAW_PEER_THESIS ==
  <<"p", "e", "e", "r", " ", "c", "o", "m", "p", "a", "r", "i", "s", "o", "n", ",", " ", "i",
   "n", "v", "e", "s", "t", "m", "e", "n", "t", " ", "t", "h", "e", "s", "i", "s">>
\* "THESIS_INVESTMENT": the words of a keyword, not the keyword
RAW_THESIS_INVESTMENT ==
  <<"T", "H", "E", "S", "I", "S", "_", "I", "N", "V", "E", "S", "T", "M", "E", "N", "T">>
RawIntentOutputs ==
  ClosedIntents \cup {RAW_RISK_DETAIL, RAW_MARKET_RISK, RAW_PEER_THESIS, RAW_THESIS_INVESTMENT}

(***************************************************************************)
(* Data Provider: get_stock_info and get_key_metrics.  A dict is a         *)
(* function from its keys; an absent key is outside its domain.            *)
(***************************************************************************)
\* dict.get(key, default)
Get(d, key, default) == IF key \in DOMAIN d THEN d[key] ELSE default

NO_DATA_PREFIX ==
  <<"N", "o", " ", "d", "a", "t", "a", " ", "r", "e", "t", "u", "r", "n", "e", "d", " ", "f",
   "o", "r", " ">>

\* the error sentinel of get_stock_info: a dict holding only the error key
ErrorSentinel(ticker) == [error |-> NO_DATA_PREFIX \o ticker]

\* the field list of get_key_metrics, as far as the agents modelled read it
MetricKeys ==
  {"debtToEquity", "currentRatio", "trailingPE", "profitMargins", "revenueGrowth",
   "beta", "fullTimeEmployees", "recommendationKey", "currentPrice", "trailingEps"}

\* what the upstream can answer for a ticker
ProviderKinds == {"error", "full", "no_employees", "no_recommendation", "bare"}

\* the upstream's complete answer; "volume" is a key outside the field list
FullInfo ==
  [debtToEquity |-> 15000, beta |-> 130, fullTimeEmployees |-> 164000,
   recommendationKey |-> <<"b", "u", "y">>, currentPrice |-> 19000, trailingEps |-> 640,
   volume |-> 5]

\* a dict without the given keys
Without(d, keys) == [k \in DOMAIN d \ keys |-> d[k]]

\* get_stock_info as the agents see it: a usable dict, or the error sentinel
get_stock_info(kind, ticker) ==
  CASE kind = "error" -> ErrorSentinel(ticker)
    [] kind = "full" -> FullInfo
    [] kind = "no_employees" -> Without(FullInfo, {"fullTimeEmployees"})
    [] kind = "no_recommendation" -> Without(FullInfo, {"recommendationKey"})
    [] OTHER -> Without(FullInfo, DOMAIN FullInfo \ {"currentPrice"})

\* get_key_metrics: the sentinel unchanged, else the listed keys that are present
get_key_metrics(info) ==
  IF "error" \in DOMAIN info /\ Cardinality(DOMAIN info) <= 1 THEN info
  ELSE [k \in DOMAIN info \cap MetricKeys |-> info[k]]

(***************************************************************************)
(* Risk Scorer: RiskAgent.assess_financial_risk.  Values are hundredths.   *)
(***************************************************************************)
RiskIndicator(level, value, note) == [level |-> level, value |-> value, note |-> note]

\* mutant of leverage_risk: the thresholds taken inclusive
leverage_risk_Inclusive(de) ==
  IF de >= 20000 THEN RiskIndicator("Critical", de, "Very high leverage")
  ELSE IF de >= 10000 THEN RiskIndicator("High", de, "High leverage")
  ELSE IF de >= 5000 THEN RiskIndicator("Medium", de, "Moderate leverage")
  ELSE RiskIndicator("Low", de, "Conservative leverage")

leverage_risk(de) ==
  IF de > 20000 THEN RiskIndicator("Critical", de, "Very high leverage")
  ELSE IF de > 10000 THEN RiskIndicator("High", de, "High leverage")
  ELSE IF de > 5000 THEN RiskIndicator("Medium", de, "Moderate leverage")
  ELSE RiskIndicator("Low", de, "Conservative leverage")

liquidity_risk(cr) ==
  IF cr < 50 THEN RiskIndicator("Critical", cr, "Severe liquidity concern")
  ELSE IF cr < 100 THEN RiskIndicator("High", cr, "Below 1x current ratio")
  ELSE IF cr < 150 THEN RiskIndicator("Medium", cr, "Adequate liquidity")
  ELSE RiskIndicator("Low", cr, "Strong liquidity")

\* mutant of valuation_risk: a non-positive P/E falls into the lowest bucket
valuation_risk_NoNegative(pe) ==
  IF pe > 6000 THEN RiskIndicator("High", pe, "Very high P/E, elevated expectations")
  ELSE IF pe > 3000 THEN RiskIndicator("Medium", pe, "Above-average valuation")
  ELSE RiskIndicator("Low", pe, "Reasonable valuation")

valuation_risk(pe) ==
  IF pe > 6000 THEN RiskIndicator("High", pe, "Very high P/E, elevated expectations")
  ELSE IF pe > 3000 THEN RiskIndicator("Medium", pe, "Above-average valuation")
  ELSE IF pe > 0 THEN RiskIndicator("Low", pe, "Reasonable valuation")
  ELSE RiskIndicator("High", pe, "Negative earnings")

profitability_risk(margins) ==
  IF margins < 0 THEN RiskIndicator("High", margins, "Unprofitable")
  ELSE IF margins < 5 THEN RiskIndicator("Medium", margins, "Thin margins")
  ELSE RiskIndicator("Low", margins, "Healthy margins")

growth_risk(rev_growth) ==
  IF rev_growth < -10 THEN RiskIndicator("High", rev_growth, "Revenue declining")
  ELSE IF rev_growth < 0 THEN RiskIndicator("Medium", rev_growth, "Slight revenue decline")
  ELSE RiskIndicator("Low", rev_growth, "Positive growth")

volatility_risk(beta) ==
  IF beta > 200 THEN RiskIndicator("High", beta, "Very high beta")
  ELSE IF beta > 120 THEN RiskIndicator("Medium", beta, "Above-market volatility")
  ELSE RiskIndicator("Low", beta, "Low to moderate volatility")

\* the six categories, in the order the code fills them in
Categories ==
  <<"leverage_risk", "liquidity_risk", "valuation_risk", "profitability_risk",
    "growth_risk", "volatility_risk">>

CategorySet == {Categories[i] : i \in 1..Len(Categories)}

\* the metric each category is computed from
SourceMetric(category) ==
  CASE category = "leverage_risk" -> "debtToEquity"
    [] category = "liquidity_risk" -> "currentRatio"
    [] category = "valuation_risk" -> "trailingPE"
    [] category = "profitability_risk" -> "profitMargins"
    [] category = "growth_risk" -> "revenueGrowth"
    [] OTHER -> "beta"

\* one category's indicator from its metric value
CategoryIndicator(category, v) ==
  CASE category = "leverage_risk" -> leverage_risk(v)
    [] category = "liquidity_risk" -> liquidity_risk(v)
    [] category = "valuation_risk" -> valuation_risk(v)
    [] category = "profitability_risk" -> profitability_risk(v)
    [] category = "growth_risk" -> growth_risk(v)
    [] OTHER -> volatility_risk(v)

\* assess_financial_risk on the metrics get_key_metrics returned: the sentinel's
\* error alone, else the indicators of the categories whose metric is present
\* (the entries "ticker" and "company" of the result carry no level and are
\* skipped by every reader of the result)
assess_financial_risk(bundle) ==
  IF "error" \in DOMAIN bundle THEN [error |-> bundle["error"]]
  ELSE [c \in {k \in CategorySet : SourceMetric(k) \in DOMAIN bundle}
          |-> CategoryIndicator(c, bundle[SourceMetric(c)])]

(***************************************************************************)
(* Calls observed during one process_query run.  Every event has the same  *)
(* fields; the ones a call does not use are empty.                         *)
(*   op:     the function called                                           *)
(*   tk:     its ticker argument(s)                                        *)
(*   label, intent, info: the arguments of log_activity (info is the       *)
(*           status), of publish_analysis_complete, the agent name of a    *)
(*           status_callback, the prompt template of a generate call       *)
(*   prompt: the rendered fields of a generate call's prompt               *)
(*   resp:   the response text handed to publish_analysis_complete         *)
(***************************************************************************)
Event(op, tk, label, intent_, info, prompt, resp) ==
  [op |-> op, tk |-> tk, label |-> label, intent |-> intent_, info |-> info,
   prompt |-> prompt, resp |-> resp]

ProviderCall(name, ticker) == Event(name, <<ticker>>, <<>>, <<>>, "", <<>>, <<>>)
GenerateCall(template, prompt) == Event("generate", <<>>, <<>>, <<>>, template, prompt, <<>>)
CallbackCall(agent) == Event("status_callback", <<>>, <<>>, <<>>, agent, <<>>, <<>>)
LogCall(label, intent_, status) == Event("log_activity", <<>>, label, intent_, status, <<>>, <<>>)
PublishCall(ticker, intent_, resp) ==
  Event("publish_analysis_complete", <<ticker>>, <<>>, intent_, "", <<>>, resp)

\* the events of `if status_callback: status_callback(agent, ...)` for each agent
CallbackEvents(callback, agents) ==
  IF callback = "none" THEN <<>> ELSE [i \in 1..Len(agents) |-> CallbackCall(agents[i])]

\* a field of a prompt, as the f-string rendered it
Item(field, text) == [field |-> field, text |-> text]

\* {d.get(key, 'N/A')} inside an f-string
Render(d, field, key) == Item(field, IF key \in DOMAIN d THEN "value" ELSE "N/A")

(***************************************************************************)
(* Generative Text Service as the agents see it: generate() returns the    *)
(* model's text, or its error-prefixed string; it does not raise.          *)
(***************************************************************************)
ANSWER_TEXT == <<"A", "N", "S", "W", "E", "R">>
Answers == {"text", "error"}

generate(answer) == IF answer = "text" THEN ANSWER_TEXT ELSE ERROR_PREFIX \o ERR_429

(***************************************************************************)
(* Side channels: GCPClient.log_activity and publish_analysis_complete.    *)
(***************************************************************************)
\* uninitialised: the clients are None; raises: insert and publish raise;
\* insert_errors: insert_rows_json reports errors; ok: both succeed
GcpModes == {"uninitialised", "raises", "insert_errors", "ok"}

SUMMARY_CHARS == 200
ELLIPSIS == <<".", ".", ".">>

Min(a, b) == IF a < b THEN a ELSE b

\* mutant of log_activity: the insert outside any try/except
log_activity_Unguarded(gcp, table, row) ==
  IF gcp = "uninitialised" THEN [raised |-> FALSE, table |-> table]
  ELSE IF gcp = "raises" THEN [raised |-> TRUE, table |-> table]
  ELSE IF gcp = "insert_errors" THEN [raised |-> FALSE, table |-> table]
  ELSE [raised |-> FALSE, table |-> Append(table, row)]

\* log_activity: the table afterwards, and whether an exception left the call
log_activity(gcp, table, row) ==
  IF gcp = "uninitialised" THEN [raised |-> FALSE, table |-> table]
  ELSE IF gcp = "raises" THEN [raised |-> FALSE, table |-> table]
  ELSE IF gcp = "insert_errors" THEN [raised |-> FALSE, table |-> table]
  ELSE [raised |-> FALSE, table |-> Append(table, row)]

\* publish_analysis_complete: the topic afterwards, and whether an exception left
publish_analysis_complete(gcp, topic, ticker, agent_type, result_summary) ==
  IF gcp = "uninitialised" THEN [raised |-> FALSE, topic |-> topic]
  ELSE IF gcp = "raises" THEN [raised |-> FALSE, topic |-> topic]
  ELSE [raised |-> FALSE,
        topic |-> Append(topic,
                    [ticker |-> ticker, agent |-> agent_type,
                     summary |-> SubSeq(result_summary, 1,
                                   Min(SUMMARY_CHARS, Len(result_summary))) \o ELLIPSIS])]

(***************************************************************************)
(* Specialist operations.  Each yields the calls it makes in order, the    *)
(* exception that leaves it ("" when none) and its response.               *)
(***************************************************************************)
OpResult(calls, exception, resp) == [calls |-> calls, exc |-> exception, response |-> resp]

\* the keys of a dict filled in a loop over the tickers: first insertion order
RECURSIVE DictKeys(_)
DictKeys(ts) ==
  IF ts = <<>> THEN <<>>
  ELSE LET front == DictKeys(SubSeq(ts, 1, Len(ts) - 1))
           last  == Upper(Strip(ts[Len(ts)]))
       IN  IF \E i \in 1..Len(front) : front[i] = last THEN front ELSE Append(front, last)

\* one provider call per ticker of the list, in list order
CallPerTicker(name, ts) == [i \in 1..Len(ts) |-> ProviderCall(name, Upper(Strip(ts[i])))]

RECURSIVE Flatten(_)
Flatten(ss) == IF ss = <<>> THEN <<>> ELSE Head(ss) \o Flatten(Tail(ss))

\* the level lines a prompt lists for a risk result
LevelItems(risk_data) ==
  LET present == SelectSeq(Categories, LAMBDA c : c \in DOMAIN risk_data)
  IN  [i \in 1..Len(present) |-> Item(present[i], risk_data[present[i]].level)]

\* ReportAgent.generate_investment_thesis
generate_investment_thesis(ticker, e) ==
  LET metrics == get_key_metrics(get_stock_info(e.provider, ticker))
      calls   == <<ProviderCall("get_key_metrics", ticker), ProviderCall("get_news", ticker)>>
      prompt  == <<Item("Employees", "thousands"),
                   Render(metrics, "Debt/Equity", "debtToEquity"),
                   Item("Recommendation",
                        IF "recommendationKey" \in DOMAIN metrics THEN "VALUE" ELSE "N/A")>>
  IN  \* {metrics.get('fullTimeEmployees', 'N/A'):,} : ',' is no format of a str
      IF "fullTimeEmployees" \notin DOMAIN metrics
      THEN OpResult(calls, "ValueError", <<>>)
      ELSE OpResult(Append(calls, GenerateCall("investment_thesis", prompt)), "",
                    generate(e.answer))

\* ReportAgent.generate_comparison_report
generate_comparison_report(ts, e) ==
  LET keys   == DictKeys(ts)
      block(t) == LET metrics == get_key_metrics(get_stock_info(e.provider, t))
                  IN  <<Item("company", "block"), Render(metrics, "D/E", "debtToEquity"),
                        Render(metrics, "Analyst", "recommendationKey")>>
      prompt == Flatten([i \in 1..Len(keys) |-> block(keys[i])])
  IN  OpResult(Append(CallPerTicker("get_key_metrics", ts),
                      GenerateCall("comparison_report", prompt)), "", generate(e.answer))

\* ReportAgent.generate_earnings_analysis
generate_earnings_analysis(ticker, e) ==
  LET metrics == get_key_metrics(get_stock_info(e.provider, ticker))
      prompt  == <<Render(metrics, "EPS (TTM)", "trailingEps")>>
  IN  OpResult(<<ProviderCall("get_key_metrics", ticker), ProviderCall("get_news", ticker),
                 GenerateCall("earnings_analysis", prompt)>>, "", generate(e.answer))

\* RiskAgent.comprehensive_risk_analysis
comprehensive_risk_analysis(ticker, e) ==
  LET metrics   == get_key_metrics(get_stock_info(e.provider, ticker))
      risk_data == assess_financial_risk(get_key_metrics(get_stock_info(e.provider, ticker)))
      prompt    == <<Render(metrics, "Debt/Equity", "debtToEquity"),
                     Render(metrics, "Beta", "beta")>> \o LevelItems(risk_data)
  IN  OpResult(<<ProviderCall("get_key_metrics", ticker),
                 ProviderCall("get_key_metrics", ticker),
                 ProviderCall("get_company_filings", ticker),
                 GenerateCall("risk_analysis", prompt)>>, "", generate(e.answer))

\* RiskAgent.compare_risks
compare_risks(ts, e) ==
  LET keys   == DictKeys(ts)
      block(t) == <<Item("company", "block")>>
                  \o LevelItems(assess_financial_risk(
                                  get_key_metrics(get_stock_info(e.provider, t))))
      prompt == Flatten([i \in 1..Len(keys) |-> block(keys[i])])
  IN  OpResult(Append(CallPerTicker("get_key_metrics", ts),
                      GenerateCall("compare_risks", prompt)), "", generate(e.answer))

\* SentimentAgent.analyze_sentiment
analyze_sentiment(ticker, e) ==
  LET info   == get_stock_info(e.provider, ticker)
      prompt == IF "error" \notin DOMAIN info
                THEN <<Render(info, "Current Price", "currentPrice"),
                       Render(info, "Analyst Recommendation", "recommendationKey")>>
                ELSE <<>>
  IN  OpResult(<<ProviderCall("get_news", ticker), ProviderCall("get_stock_info", ticker),
                 GenerateCall("sentiment", prompt)>>, "", generate(e.answer))

\* SentimentAgent.analyze_news_batch
analyze_news_batch(ts, e) ==
  LET keys   == DictKeys(ts)
      prompt == [i \in 1..Len(keys) |-> Item("company", "block")]
  IN  OpResult(Append(CallPerTicker("get_news", ts), GenerateCall("news_batch", prompt)),
               "", generate(e.answer))

\* DocumentAgent.analyze_filing_with_ai
analyze_filing_with_ai(ticker, e) ==
  OpResult(<<ProviderCall("get_company_info_sec", ticker),
             ProviderCall("get_company_facts", ticker),
             ProviderCall("get_company_filings", ticker),
             GenerateCall("filing_analysis", <<>>)>>, "", generate(e.answer))

COULD_NOT_FETCH ==
  <<"C", "o", "u", "l", "d", " ", "n", "o", "t", " ", "f", "e", "t", "c", "h", " ", "d", "a",
   "t", "a", " ", "f", "o", "r", " ">>
COLON_SPACE == <<":", " ">>

\* a value of an overview: a present metric is <<v>>, None is <<>>
Opt(d, key) == IF key \in DOMAIN d THEN <<d[key]>> ELSE <<>>

\* MarketDataAgent.get_company_overview: every key is set, to None when the
\* metric is absent
get_company_overview(ticker, e) ==
  LET metrics == get_key_metrics(get_stock_info(e.provider, ticker))
  IN  IF "error" \in DOMAIN metrics
      THEN [error |-> COULD_NOT_FETCH \o ticker \o COLON_SPACE \o metrics["error"]]
      ELSE [current_price |-> Opt(metrics, "currentPrice"),
            debt_to_equity |-> Opt(metrics, "debtToEquity"),
            recommendation |-> Opt(metrics, "recommendationKey"),
            employees |-> Opt(metrics, "fullTimeEmployees")]

\* the provider calls of get_company_overview
OverviewCalls(ticker, e) ==
  IF "error" \in DOMAIN get_company_overview(ticker, e)
  THEN <<ProviderCall("get_key_metrics", ticker)>>
  ELSE <<ProviderCall("get_key_metrics", ticker), ProviderCall("get_price_history", ticker)>>

\* {overview.get(key, 'N/A')}: the key is there, so None renders as None
RenderOverview(overview, field, key) ==
  Item(field, IF key \notin DOMAIN overview THEN "N/A"
              ELSE IF overview[key] = <<>> THEN "None" ELSE "value")

\* MarketDataAgent.analyze_with_ai
analyze_with_ai(ticker, e) ==
  LET overview == get_company_overview(ticker, e)
      prompt   == <<RenderOverview(overview, "Current Price", "current_price"),
                    RenderOverview(overview, "Debt/Equity", "debt_to_equity"),
                    RenderOverview(overview, "Recommendation", "recommendation")>>
  IN  IF "error" \in DOMAIN overview
      THEN OpResult(OverviewCalls(ticker, e), "", overview["error"])
      ELSE OpResult(Append(OverviewCalls(ticker, e), GenerateCall("market_analysis", prompt)),
                    "", generate(e.answer))

\* MarketDataAgent.compare_with_ai (with compare_companies)
compare_with_ai(ts, e) ==
  LET keys   == DictKeys(ts)
      block(t) == LET overview == get_company_overview(t, e)
                  IN  IF "error" \in DOMAIN overview
                      THEN <<Item("company", "Data unavailable")>>
                      ELSE <<Item("company", "block"),
                             RenderOverview(overview, "D/E", "debt_to_equity"),
                             RenderOverview(overview, "Analyst", "recommendation")>>
      prompt == Flatten([i \in 1..Len(keys) |-> block(keys[i])])
      calls  == Flatten([i \in 1..Len(ts) |-> OverviewCalls(Upper(Strip(ts[i])), e)])
  IN  OpResult(Append(calls, GenerateCall("market_comparison", prompt)), "",
               generate(e.answer))

\* mutant of _comprehensive_single_stock: the risk assessment indented under
\* `if status_callback:`
_comprehensive_single_stock_Indented(ticker, e, status_callback) ==
  LET market_data == get_company_overview(ticker, e)
      risk_data   == IF status_callback = "none" THEN <<>>
                     ELSE assess_financial_risk(
                            get_key_metrics(get_stock_info(e.provider, ticker)))
      prompt      == <<RenderOverview(market_data, "Price", "current_price"),
                       RenderOverview(market_data, "Analyst Recommendation",
                                      "recommendation")>> \o LevelItems(risk_data)
  IN  OpResult(CallbackEvents(status_callback, <<"market">>)
               \o OverviewCalls(ticker, e)
               \o CallbackEvents(status_callback, <<"document">>)
               \o <<ProviderCall("get_company_filings", ticker)>>
               \o CallbackEvents(status_callback, <<"risk">>)
               \o (IF status_callback = "none" THEN <<>>
                   ELSE <<ProviderCall("get_key_metrics", ticker)>>)
               \o CallbackEvents(status_callback, <<"orchestrator">>)
               \o <<GenerateCall("comprehensive", prompt)>>, "", generate(e.answer))

\* Orchestrator._comprehensive_single_stock
_comprehensive_single_stock(ticker, e, status_callback) ==
  LET market_data == get_company_overview(ticker, e)
      risk_data   == assess_financial_risk(get_key_metrics(get_stock_info(e.provider, ticker)))
      prompt      == <<RenderOverview(market_data, "Price", "current_price"),
                       RenderOverview(market_data, "Analyst Recommendation",
                                      "recommendation")>> \o LevelItems(risk_data)
  IN  OpResult(CallbackEvents(status_callback, <<"market">>)
               \o OverviewCalls(ticker, e)
               \o CallbackEvents(status_callback, <<"document">>)
               \o <<ProviderCall("get_company_filings", ticker)>>
               \o CallbackEvents(status_callback, <<"risk">>)
               \o <<ProviderCall("get_key_metrics", ticker)>>
               \o CallbackEvents(status_callback, <<"orchestrator">>)
               \o <<GenerateCall("comprehensive", prompt)>>, "", generate(e.answer))

(***************************************************************************)
(* Orchestrator.process_query: the routing decision.                       *)
(***************************************************************************)
RouteTo(rule, op, args) == [rule |-> rule, op |-> op, args |-> args]
NoRoute == RouteTo("", "", <<>>)

\* the if/elif chain of process_query from its third branch on
RouteByKeyword(intent_, ts) ==
  IF Contains(intent_, KW_RISK) /\ ts # <<>>
  THEN IF Len(ts) > 1 THEN RouteTo("RISK", "compare_risks", ts)
       ELSE RouteTo("RISK", "comprehensive_risk_analysis", <<ts[1]>>)
  ELSE IF Contains(intent_, KW_SENTIMENT) /\ ts # <<>>
  THEN IF Len(ts) > 1 THEN RouteTo("SENTIMENT", "analyze_news_batch", ts)
       ELSE RouteTo("SENTIMENT", "analyze_sentiment", <<ts[1]>>)
  ELSE IF Contains(intent_, KW_EARNINGS) /\ ts # <<>>
  THEN RouteTo("EARNINGS", "generate_earnings_analysis", <<ts[1]>>)
  ELSE IF Contains(intent_, KW_DOCUMENT) /\ ts # <<>>
  THEN RouteTo("DOCUMENT", "analyze_filing_with_ai", <<ts[1]>>)
  ELSE IF Contains(intent_, KW_MARKET) /\ ts # <<>>
  THEN IF Len(ts) > 1 THEN RouteTo("MARKET", "compare_with_ai", ts)
       ELSE RouteTo("MARKET", "analyze_with_ai", <<ts[1]>>)
  ELSE IF ts # <<>>
  THEN IF Len(ts) > 1 THEN RouteTo("FALLBACK", "compare_with_ai", ts)
       ELSE RouteTo("FALLBACK", "_comprehensive_single_stock", <<ts[1]>>)
  ELSE RouteTo("GENERAL", "generate", <<>>)

\* mutant of Route: PEER_COMPARISON guarded by `and tickers` like its neighbours
Route_PeerAnyCount(intent_, ts) ==
  IF Contains(intent_, KW_INVESTMENT_THESIS) /\ ts # <<>>
  THEN RouteTo("INVESTMENT_THESIS", "generate_investment_thesis", <<ts[1]>>)
  ELSE IF Contains(intent_, KW_PEER_COMPARISON) /\ ts # <<>>
  THEN RouteTo("PEER_COMPARISON", "generate_comparison_report", ts)
  ELSE RouteByKeyword(intent_, ts)

\* the if/elif chain of process_query: the rule taken, the operation called
\* and the tickers it is called with
Route(intent_, ts) ==
  IF Contains(intent_, KW_INVESTMENT_THESIS) /\ ts # <<>>
  THEN RouteTo("INVESTMENT_THESIS", "generate_investment_thesis", <<ts[1]>>)
  ELSE IF Contains(intent_, KW_PEER_COMPARISON) /\ Len(ts) >= 2
  THEN RouteTo("PEER_COMPARISON", "generate_comparison_report", ts)
  ELSE RouteByKeyword(intent_, ts)

\* the agents process_query notifies before it calls the routed operation
RouteCallbacks(rule) ==
  CASE rule = "INVESTMENT_THESIS" -> <<"market", "document", "sentiment", "risk", "report">>
    [] rule = "PEER_COMPARISON" -> <<"market", "report">>
    [] rule = "RISK" -> <<"risk">>
    [] rule = "SENTIMENT" -> <<"sentiment">>
    [] rule = "EARNINGS" -> <<"market", "report">>
    [] rule = "DOCUMENT" -> <<"document">>
    [] rule = "MARKET" -> <<"market">>
    [] rule = "FALLBACK" -> <<"orchestrator", "market">>
    [] OTHER -> <<"orchestrator">>

\* the routed operation, run
RunOperation(r, e, status_callback) ==
  CASE r.op = "generate_investment_thesis" -> generate_investment_thesis(r.args[1], e)
    [] r.op = "generate_comparison_report" -> generate_comparison_report(r.args, e)
    [] r.op = "compare_risks" -> compare_risks(r.args, e)
    [] r.op = "comprehensive_risk_analysis" -> comprehensive_risk_analysis(r.args[1], e)
    [] r.op = "analyze_news_batch" -> analyze_news_batch(r.args, e)
    [] r.op = "analyze_sentiment" -> analyze_sentiment(r.args[1], e)
    [] r.op = "generate_earnings_analysis" -> generate_earnings_analysis(r.args[1], e)
    [] r.op = "analyze_filing_with_ai" -> analyze_filing_with_ai(r.args[1], e)
    [] r.op = "compare_with_ai" -> compare_with_ai(r.args, e)
    [] r.op = "analyze_with_ai" -> analyze_with_ai(r.args[1], e)
    [] r.op = "_comprehensive_single_stock" ->
         _comprehensive_single_stock(r.args[1], e, status_callback)
    [] OTHER -> OpResult(<<GenerateCall("general", <<>>)>>, "", generate(e.answer))

(***************************************************************************)
(* State.                                                                  *)
(***************************************************************************)
VARIABLES
  pc,         \* where process_query stands: idle, start, extract, classify,
              \* log_started, route, log_completed, publish, return, done, raised
  env,        \* what the collaborators answer during this query
  callback,   \* the status_callback argument: none, ok, raises_first, raises_later
  tickers,    \* local variable tickers
  intent,     \* local variable intent
  route,      \* the branch of the if/elif chain taken
  response,   \* local variable response
  result,     \* the value returned to the caller
  exc,        \* the exception that left process_query, and the call it left from
  trace,      \* the calls made during this run, in order
  agent_logs, \* the rows of the BigQuery table agent_logs
  topic,      \* the messages published to the Pub/Sub topic
  first,      \* the previous run of the same query, when it is run again
  metrics,    \* Risk Scorer: the MetricsBundle under assessment
  risk,       \* Risk Scorer: the result of assess_financial_risk
  gpc,        \* GeminiClient: where the call stands
  entry,      \* GeminiClient: the method the caller called
  frame,      \* GeminiClient: the function _call_with_retry is running
  attempt,    \* _call_with_retry: loop variable attempt
  err,        \* GeminiClient: the exception in flight, <<>> when there is none
  last_err,   \* _call_with_retry: local variable last_err
  upload_err, \* analyze_document: the exception caught as upload_err
  glog,       \* GeminiClient: the calls and sleeps made, in order
  tmp,        \* analyze_document: the temporary file and whether tmp_path is set
  file_state, \* analyze_document: uploaded_file.state.name
  polls,      \* analyze_document: get_file calls since the upload
  doc,        \* analyze_document: the document passed in
  gret,       \* GeminiClient: the value returned to the caller
  gexc,       \* GeminiClient: the exception that left the method
  fn_in,      \* a helper function under test and its argument
  fn_out,     \* the value it returned
  _cik_cache, \* data_providers: module variable _cik_cache
  sec_calls   \* data_providers: the get_cik_from_ticker calls made, in order

queryVars == <<pc, env, callback, tickers, intent, route, response, result, exc, trace,
               agent_logs, topic, first>>
riskVars == <<metrics, risk>>
geminiVars == <<gpc, entry, frame, attempt, err, last_err, upload_err, glog, tmp, file_state,
                polls, doc, gret, gexc>>
fnVars == <<fn_in, fn_out>>
secVars == <<_cik_cache, sec_calls>>
vars == <<queryVars, riskVars, geminiVars, fnVars, secVars>>

CallbackModes == {"none", "ok", "raises_first", "raises_later"}

Envs ==
  [rawTickers : RawTickerOutputs, rawIntent : RawIntentOutputs,
   provider : ProviderKinds, gcp : GcpModes, answer : Answers]

NoEnv ==
  [rawTickers |-> <<>>, rawIntent |-> <<>>, provider |-> "", gcp |-> "", answer |-> ""]
NoException == [type |-> "", origin |-> ""]
NoRun == [calls |-> <<>>, outcome |-> "", result |-> <<>>, route |-> NoRoute,
          exc |-> NoException]
NotAssessed == [done |-> FALSE, out |-> <<>>]
NoTemp == [exists |-> FALSE, path |-> FALSE]
NoDocument == [readable |-> FALSE, pages |-> <<>>]

GeminiIdle ==
  /\ gpc = "idle"
  /\ entry = ""
  /\ frame = ""
  /\ attempt = 0
  /\ err = <<>>
  /\ last_err = <<>>
  /\ upload_err = <<>>
  /\ glog = <<>>
  /\ tmp = NoTemp
  /\ file_state = ""
  /\ polls = 0
  /\ doc = NoDocument
  /\ gret = <<>>
  /\ gexc = <<>>

NotApplied == [done |-> FALSE, value |-> <<>>]
FnIdle ==
  /\ fn_in = <<>>
  /\ fn_out = NotApplied

SecIdle ==
  /\ _cik_cache = <<>>
  /\ sec_calls = <<>>

QueryIdle ==
  /\ pc = "idle"
  /\ env = NoEnv
  /\ callback = "none"
  /\ tickers = <<>>
  /\ intent = <<>>
  /\ route = NoRoute
  /\ response = <<>>
  /\ result = <<>>
  /\ exc = NoException
  /\ trace = <<>>
  /\ agent_logs = <<>>
  /\ topic = <<>>
  /\ first = NoRun

Init ==
  /\ QueryIdle
  /\ metrics = <<>>
  /\ risk = NotAssessed
  /\ GeminiIdle
  /\ FnIdle
  /\ SecIdle

\* an exception leaves process_query
Raise(type, origin) ==
  /\ pc' = "raised"
  /\ exc' = [type |-> type, origin |-> origin]

\* the caller submits a query: the collaborators' answers are fixed for it
Submit ==
  /\ pc = "idle"
  /\ \E e \in Envs, c \in CallbackModes :
       /\ env' = e
       /\ callback' = c
  /\ pc' = "start"
  /\ UNCHANGED <<tickers, intent, route, response, result, exc, trace, agent_logs, topic,
                 first, riskVars, geminiVars, fnVars, secVars>>

\* process_query, step 1: the first progress notification
Start ==
  /\ pc = "start"
  /\ trace' = trace \o CallbackEvents(callback, <<"orchestrator">>)
  /\ IF callback = "raises_first"
     THEN Raise("CallbackError", "status_callback")
     ELSE pc' = "extract" /\ exc' = exc
  /\ UNCHANGED <<env, callback, tickers, intent, route, response, result, agent_logs, topic,
                 first, riskVars, geminiVars, fnVars, secVars>>

\* tickers = self._extract_tickers(query)
ExtractTickers ==
  /\ pc = "extract"
  /\ tickers' = _extract_tickers(env.rawTickers)
  /\ trace' = Append(trace, GenerateCall("extract_tickers", <<>>))
  /\ pc' = "classify"
  /\ UNCHANGED <<env, callback, intent, route, response, result, exc, agent_logs, topic,
                 first, riskVars, geminiVars, fnVars, secVars>>

\* intent = self._classify_intent(query)
ClassifyIntent ==
  /\ pc = "classify"
  /\ intent' = _classify_intent(env.rawIntent)
  /\ trace' = Append(trace, GenerateCall("classify_intent", <<>>))
  /\ pc' = "log_started"
  /\ UNCHANGED <<env, callback, tickers, route, response, result, exc, agent_logs, topic,
                 first, riskVars, geminiVars, fnVars, secVars>>

\* gcp_client.log_activity(label, intent, status)
LogActivity(status, next) ==
  LET label == TickerLabel(tickers)
      out   == log_activity(env.gcp, agent_logs,
                            [ticker |-> label, agent |-> intent, status |-> status])
  IN  /\ trace' = Append(trace, LogCall(label, intent, status))
      /\ agent_logs' = out.table
      /\ IF out.raised
         THEN Raise("Exception", "log_activity")
         ELSE pc' = next /\ exc' = exc

LogStarted ==
  /\ pc = "log_started"
  /\ LogActivity("STARTED", "route")
  /\ UNCHANGED <<env, callback, tickers, intent, route, response, result, topic, first,
                 riskVars, geminiVars, fnVars, secVars>>

\* the if/elif chain: the progress notifications of the branch, then its operation
Dispatch ==
  /\ pc = "route"
  /\ LET r   == Route(intent, tickers)
         cbs == CallbackEvents(callback, RouteCallbacks(r.rule))
         out == RunOperation(r, env, callback)
     IN  /\ route' = r
         /\ IF callback = "raises_later"
            THEN /\ trace' = Append(trace, cbs[1])
                 /\ Raise("CallbackError", "status_callback")
                 /\ response' = response
            ELSE /\ trace' = trace \o cbs \o out.calls
                 /\ IF out.exc # ""
                    THEN Raise(out.exc, r.op) /\ response' = response
                    ELSE pc' = "log_completed" /\ exc' = exc /\ response' = out.response
  /\ UNCHANGED <<env, callback, tickers, intent, result, agent_logs, topic, first,
                 riskVars, geminiVars, fnVars, secVars>>

LogCompleted ==
  /\ pc = "log_completed"
  /\ LogActivity("COMPLETED", IF tickers # <<>> THEN "publish" ELSE "return")
  /\ UNCHANGED <<env, callback, tickers, intent, route, response, result, topic, first,
                 riskVars, geminiVars, fnVars, secVars>>

\* if tickers: gcp_client.publish_analysis_complete(tickers[0], intent, response)
Publish ==
  /\ pc = "publish"
  /\ LET out == publish_analysis_complete(env.gcp, topic, tickers[1], intent, response)
     IN  /\ trace' = Append(trace, PublishCall(tickers[1], intent, response))
         /\ topic' = out.topic
         /\ IF out.raised
            THEN Raise("Exception", "publish_analysis_complete")
            ELSE pc' = "return" /\ exc' = exc
  /\ UNCHANGED <<env, callback, tickers, intent, route, response, result, agent_logs, first,
                 riskVars, geminiVars, fnVars, secVars>>

\* return response
Return ==
  /\ pc = "return"
  /\ result' = response
  /\ pc' = "done"
  /\ UNCHANGED <<env, callback, tickers, intent, route, response, exc, trace, agent_logs,
                 topic, first, riskVars, geminiVars, fnVars, secVars>>

\* the calls of a run other than the progress notifications
NonCallback(t) == SelectSeq(t, LAMBDA ev : ev.op # "status_callback")

\* the same query is processed again with status_callback=None, the
\* collaborators answering as before
RunAgain ==
  /\ pc \in {"done", "raised"}
  /\ callback = "ok"
  /\ first = NoRun
  /\ first' = [calls |-> NonCallback(trace), outcome |-> pc, result |-> result,
               route |-> route, exc |-> exc]
  /\ callback' = "none"
  /\ pc' = "start"
  /\ tickers' = <<>>
  /\ intent' = <<>>
  /\ route' = NoRoute
  /\ response' = <<>>
  /\ result' = <<>>
  /\ exc' = NoException
  /\ trace' = <<>>
  /\ UNCHANGED <<env, agent_logs, topic, riskVars, geminiVars, fnVars, secVars>>

Next ==
  \/ Submit
  \/ Start
  \/ ExtractTickers
  \/ ClassifyIntent
  \/ LogStarted
  \/ Dispatch
  \/ LogCompleted
  \/ Publish
  \/ Return
  \/ RunAgain

Spec == Init /\ [][Next]_vars

(***************************************************************************)
(* The Risk Scorer on its own: a MetricsBundle is drawn, then assessed.    *)
(***************************************************************************)
\* sample values of each metric, in hundredths: every threshold of the
\* scorer, and the values next to it
MetricSamples(key) ==
  CASE key = "debtToEquity" -> {5000, 5001, 10000, 10001, 20000, 20001}
    [] key = "currentRatio" -> {49, 50, 99, 100, 149, 150}
    [] key = "trailingPE" -> {-1, 0, 1, 3000, 3001, 6000, 6001}
    [] key = "profitMargins" -> {-1, 0, 4, 5}
    [] key = "revenueGrowth" -> {-11, -10, -1, 0}
    [] OTHER -> {120, 121, 200, 201}

\* the bundles over the first n risk metrics: each metric absent or a sample
RECURSIVE BundlesOver(_)
BundlesOver(n) ==
  IF n = 0 THEN {<<>>}
  ELSE LET key  == SourceMetric(Categories[n])
           rest == BundlesOver(n - 1)
       IN  rest \cup {(key :> v) @@ b : b \in rest, v \in MetricSamples(key)}

MetricsBundles == BundlesOver(Len(Categories)) \cup {ErrorSentinel(<<"A">>)}

InitRisk ==
  /\ QueryIdle
  /\ metrics \in MetricsBundles
  /\ risk = NotAssessed
  /\ GeminiIdle
  /\ FnIdle
  /\ SecIdle

\* risk_data = self.assess_financial_risk(ticker), on the bundle fetched
AssessRisk ==
  /\ ~risk.done
  /\ risk' = [done |-> TRUE, out |-> assess_financial_risk(metrics)]
  /\ UNCHANGED <<queryVars, metrics, geminiVars, fnVars, secVars>>

NextRisk == AssessRisk

SpecRisk == InitRisk /\ [][NextRisk]_vars

(***************************************************************************)
(* Properties of the routing (specification Spec).                         *)
(***************************************************************************)
\* the routed operation has been chosen in this run
Routed == route # NoRoute
\* the routed operation has returned
OperationReturned == pc \in {"log_completed", "publish", "return", "done"}

\* the rules of the routing table in priority order: name, keyword (empty:
\* none required) and the least number of tickers
RoutingTable ==
  <<[name |-> "INVESTMENT_THESIS", kw |-> KW_INVESTMENT_THESIS, least |-> 1],
    [name |-> "PEER_COMPARISON", kw |-> KW_PEER_COMPARISON, least |-> 2],
    [name |-> "RISK", kw |-> KW_RISK, least |-> 1],
    [name |-> "SENTIMENT", kw |-> KW_SENTIMENT, least |-> 1],
    [name |-> "EARNINGS", kw |-> KW_EARNINGS, least |-> 1],
    [name |-> "DOCUMENT", kw |-> KW_DOCUMENT, least |-> 1],
    [name |-> "MARKET", kw |-> KW_MARKET, least |-> 1],
    [name |-> "FALLBACK", kw |-> <<>>, least |-> 1],
    [name |-> "GENERAL", kw |-> <<>>, least |-> 0]>>

\* substring test written out position by position
Occurs(kw, s) ==
  \E start \in 0..(Len(s) - Len(kw)) : \A j \in 1..Len(kw) : s[start + j] = kw[j]

RuleMatches(i) ==
  /\ Occurs(RoutingTable[i].kw, intent)
  /\ Len(tickers) >= RoutingTable[i].least

\* the prompt templates of the answer-generation calls
AnswerTemplates ==
  {"investment_thesis", "comparison_report", "earnings_analysis", "risk_analysis",
   "compare_risks", "sentiment", "news_batch", "filing_analysis", "market_analysis",
   "market_comparison", "comprehensive", "general"}

TemplateOf(op) ==
  CASE op = "generate_investment_thesis" -> "investment_thesis"
    [] op = "generate_comparison_report" -> "comparison_report"
    [] op = "generate_earnings_analysis" -> "earnings_analysis"
    [] op = "comprehensive_risk_analysis" -> "risk_analysis"
    [] op = "compare_risks" -> "compare_risks"
    [] op = "analyze_sentiment" -> "sentiment"
    [] op = "analyze_news_batch" -> "news_batch"
    [] op = "analyze_filing_with_ai" -> "filing_analysis"
    [] op = "analyze_with_ai" -> "market_analysis"
    [] op = "compare_with_ai" -> "market_comparison"
    [] op = "_comprehensive_single_stock" -> "comprehensive"
    [] OTHER -> "general"

\* the answer-generation calls of this run
AnswerCalls == SelectSeq(trace, LAMBDA ev : ev.op = "generate" /\ ev.info \in AnswerTemplates)

\* C1: process_query takes exactly one route, that of the first rule of the
\* routing table (INVESTMENT_THESIS, PEER_COMPARISON with two tickers, RISK,
\* SENTIMENT, EARNINGS, DOCUMENT, MARKET, any-ticker fallback, zero-ticker
\* generic generation) whose keyword occurs in the intent label and whose
\* ticker count is met; PEER_COMPARISON with one ticker reaches the fallback
\* and zero tickers always reach the generic generation.
Thm_C1_FirstMatchingRuleWins ==
  Routed =>
    /\ \E i \in 1..Len(RoutingTable) :
         /\ RuleMatches(i)
         /\ \A j \in 1..(i - 1) : ~RuleMatches(j)
         /\ route.rule = RoutingTable[i].name
    /\ \A k \in 1..Len(AnswerCalls) : AnswerCalls[k].info = TemplateOf(route.op)
    /\ Len(AnswerCalls) <= 1
    /\ (Occurs(KW_PEER_COMPARISON, intent) /\ Len(tickers) = 1
          => route.op # "generate_comparison_report")
    /\ (intent = LBL_PEER_COMPARISON /\ Len(tickers) = 1
          => route = RouteTo("FALLBACK", "_comprehensive_single_stock", tickers))
    /\ (tickers = <<>> => route = RouteTo("GENERAL", "generate", <<>>))

Wit_C1_PeerComparisonOneTicker ==
  /\ pc = "done"
  /\ intent = LBL_PEER_COMPARISON
  /\ Len(tickers) = 1
  /\ route.rule = "FALLBACK"

\* the multi-ticker and the single-ticker operation of a rule
MultiOp(rule) ==
  CASE rule = "RISK" -> "compare_risks"
    [] rule = "SENTIMENT" -> "analyze_news_batch"
    [] OTHER -> "compare_with_ai"
SingleOp(rule) ==
  CASE rule = "RISK" -> "comprehensive_risk_analysis"
    [] rule = "SENTIMENT" -> "analyze_sentiment"
    [] rule = "MARKET" -> "analyze_with_ai"
    [] OTHER -> "_comprehensive_single_stock"

\* the tickers the provider was called with while the routed operation ran
ProviderTickers ==
  LET calls == SelectSeq(trace, LAMBDA ev : ev.op \notin {"generate", "status_callback",
                                   "log_activity", "publish_analysis_complete"})
  IN  {calls[k].tk[1] : k \in 1..Len(calls)}

LBL_RISK_ASSESSMENT_DETAIL ==
  <<"R", "I", "S", "K", "_", "A", "S", "S", "E", "S", "S", "M", "E", "N", "T", "_", "D", "E",
   "T", "A", "I", "L">>

\* C2: in the RISK, SENTIMENT, MARKET and fallback routes two or more tickers
\* select the multi-ticker operation with the whole TickerSet and one ticker
\* selects the single-ticker operation with that ticker; a label that only
\* contains the keyword (RISK_ASSESSMENT_DETAIL) is routed like the label.
Thm_C2_MultiOrSingleOperation ==
  /\ Routed /\ route.rule \in {"RISK", "SENTIMENT", "MARKET", "FALLBACK"} =>
       IF Len(tickers) >= 2
       THEN route.op = MultiOp(route.rule) /\ route.args = tickers
       ELSE route.op = SingleOp(route.rule) /\ route.args = <<tickers[1]>>
  /\ Routed /\ intent = LBL_RISK_ASSESSMENT_DETAIL /\ tickers # <<>> =>
       /\ route.rule = "RISK"
       /\ route.op = (IF Len(tickers) >= 2 THEN "compare_risks"
                      ELSE "comprehensive_risk_analysis")
  /\ OperationReturned /\ route.rule \in {"RISK", "SENTIMENT", "MARKET", "FALLBACK"} =>
       ProviderTickers = {route.args[k] : k \in 1..Len(route.args)}

Wit_C2_NearMissLabelTwoTickers ==
  /\ pc = "done"
  /\ intent = LBL_RISK_ASSESSMENT_DETAIL
  /\ Len(tickers) = 2
  /\ route.op = "compare_risks"

\* the label process_query is to log
ExpectedLabel ==
  IF tickers = <<>> THEN <<"G", "E", "N">>
  ELSE [i \in 1..Len(JoinComma(tickers)) |-> JoinComma(tickers)[i]]

CountStatus(t, status) ==
  Len(SelectSeq(t, LAMBDA ev : ev.op = "log_activity" /\ ev.info = status))

\* C3: in every run that returns, the calls are in this order: the ticker
\* extraction, the intent classification, one log_activity STARTED, the
\* routed operation, one log_activity COMPLETED with the label and intent of
\* the STARTED entry, then publish_analysis_complete(first ticker, intent,
\* response) exactly when there is a ticker; the label is the comma-joined
\* TickerSet, or GEN for the empty one.
Thm_C3_SideEffectOrder ==
  pc = "done" =>
    LET t == NonCallback(trace)
        n == Len(t)
        c == IF tickers # <<>> THEN n - 1 ELSE n
    IN  /\ n >= 5
        /\ t[1] = GenerateCall("extract_tickers", <<>>)
        /\ t[2] = GenerateCall("classify_intent", <<>>)
        /\ t[3] = LogCall(ExpectedLabel, intent, "STARTED")
        /\ CountStatus(t, "STARTED") = 1
        /\ c > 4
        /\ \A k \in 4..(c - 1) :
             t[k].op \notin {"log_activity", "publish_analysis_complete"}
        /\ t[c] = LogCall(t[3].label, t[3].intent, "COMPLETED")
        /\ CountStatus(t, "COMPLETED") = 1
        /\ IF tickers # <<>>
           THEN t[n] = PublishCall(tickers[1], intent, result)
           ELSE \A k \in 1..n : t[k].op # "publish_analysis_complete"

Wit_C3_ReturnedWithAndWithoutTickers ==
  /\ pc = "done"
  /\ first # NoRun
  /\ Len(tickers) = 2
  /\ trace[Len(trace)].op = "publish_analysis_complete"

\* C4: no exception leaves process_query because of what the Data Provider
\* returned: on every route, with the error sentinel or with a bundle that
\* lacks a field, the routed operation still returns a string.
CE_C4_NoExceptionFromProviderData ==
  Routed => ~(pc = "raised" /\ exc.origin = route.op)

SingleTickerOps ==
  {"analyze_with_ai", "comprehensive_risk_analysis", "generate_investment_thesis",
   "generate_earnings_analysis", "analyze_filing_with_ai", "analyze_sentiment",
   "_comprehensive_single_stock"}

\* C5 as stated: every specialist operation short-circuits on the error
\* sentinel: its response carries the sentinel's message and it issues no
\* generation call.
CE_C5_EveryOperationShortCircuits ==
  OperationReturned /\ env.provider = "error" /\ route.op \in SingleTickerOps =>
    /\ Occurs(ErrorSentinel(route.args[1]).error, response)
    /\ AnswerCalls = <<>>

\* C6: a status_callback that raises does not abort the query: process_query
\* still performs the routed operation and returns its response.
CE_C6_RaisingCallbackDoesNotAbort ==
  callback \in {"raises_first", "raises_later"} =>
    ~(pc = "raised" /\ exc.origin = "status_callback")

\* C7: the progress callback has no effect on control flow: the run with a
\* non-raising status_callback and the run of the same query with
\* status_callback=None take the same route, make the same provider,
\* generation, log and publish calls in the same order and end the same way
\* with the same response.
Thm_C7_CallbackDoesNotChangeTheRun ==
  first # NoRun /\ pc \in {"done", "raised"} =>
    /\ first.route = route
    /\ first.calls = NonCallback(trace)
    /\ first.outcome = pc
    /\ first.result = result
    /\ first.exc = exc

Wit_C7_CompositeRunTwice ==
  /\ first # NoRun
  /\ pc = "done"
  /\ callback = "none"
  /\ route.op = "_comprehensive_single_stock"
  /\ first.calls = trace

\* C8: a failure inside log_activity or publish_analysis_complete (client not
\* initialised, insert or publish raising, insert reporting errors) never
\* leaves the call: process_query goes on and returns the response of the
\* routed operation unchanged.
Thm_C8_SideChannelFailuresAreContained ==
  /\ exc.origin \notin {"log_activity", "publish_analysis_complete"}
  /\ pc \in {"route", "log_completed", "publish", "return", "done"} =>
       CountStatus(trace, "STARTED") = 1
  /\ pc = "done" =>
       /\ result = RunOperation(route, env, callback).response
       /\ CountStatus(trace, "COMPLETED") = 1

Wit_C8_ReturnedThoughInsertAndPublishRaise ==
  /\ pc = "done"
  /\ env.gcp = "raises"
  /\ tickers # <<>>
  /\ agent_logs = <<>>
  /\ topic = <<>>

(***************************************************************************)
(* Properties of the Risk Scorer (specification SpecRisk).                 *)
(***************************************************************************)
Severity(level) ==
  CASE level = "Critical" -> 4
    [] level = "High" -> 3
    [] level = "Medium" -> 2
    [] OTHER -> 1

LowerSeverity(a, b) == IF Severity(a) < Severity(b) THEN a ELSE b

\* the thresholds of each category with the two buckets that meet there
Thresholds(category) ==
  CASE category = "leverage_risk" ->
         {<<20000, "Critical", "High">>, <<10000, "High", "Medium">>, <<5000, "Medium", "Low">>}
    [] category = "liquidity_risk" ->
         {<<50, "Critical", "High">>, <<100, "High", "Medium">>, <<150, "Medium", "Low">>}
    [] category = "valuation_risk" ->
         {<<6000, "High", "Medium">>, <<3000, "Medium", "Low">>, <<0, "Low", "High">>}
    [] category = "profitability_risk" ->
         {<<0, "High", "Medium">>, <<5, "Medium", "Low">>}
    [] category = "growth_risk" ->
         {<<-10, "High", "Medium">>, <<0, "Medium", "Low">>}
    [] OTHER ->
         {<<200, "High", "Medium">>, <<120, "Medium", "Low">>}

Assessed == risk.done /\ "error" \notin DOMAIN metrics

AtThreshold(category, th) ==
  /\ SourceMetric(category) \in DOMAIN metrics
  /\ metrics[SourceMetric(category)] = th[1]

\* C9 as stated: at every threshold the scorer assigns the lower-severity of
\* the two adjacent buckets.
CE_C9_LowerBucketAtEveryThreshold ==
  Assessed =>
    \A category \in CategorySet : \A th \in Thresholds(category) :
      AtThreshold(category, th) =>
        risk.out[category].level = LowerSeverity(th[2], th[3])

\* C9 amended: at every threshold but trailing P/E 0 the scorer assigns the
\* lower-severity of the two adjacent buckets; at trailing P/E 0 it assigns
\* High, the level of the bucket of non-positive P/E.
Thm_C9_LowerBucketExceptZeroPE ==
  Assessed =>
    \A category \in CategorySet : \A th \in Thresholds(category) :
      AtThreshold(category, th) =>
        risk.out[category].level =
          (IF category = "valuation_risk" /\ th[1] = 0 THEN "High"
           ELSE LowerSeverity(th[2], th[3]))

Wit_C9_AllMetricsAtAThreshold ==
  /\ Assessed
  /\ DOMAIN metrics = {SourceMetric(c) : c \in CategorySet}
  /\ metrics["debtToEquity"] = 20000
  /\ metrics["currentRatio"] = 50
  /\ metrics["trailingPE"] = 0
  /\ metrics["profitMargins"] = 5
  /\ metrics["revenueGrowth"] = -10
  /\ metrics["beta"] = 120

\* the threshold table of the specification, row by row: the level of the
\* first row whose condition the value meets
TableLevel(category, v) ==
  CASE category = "leverage_risk" ->
         (CASE v > 20000 -> "Critical" [] v <= 20000 /\ v > 10000 -> "High"
            [] v <= 10000 /\ v > 5000 -> "Medium" [] OTHER -> "Low")
    [] category = "liquidity_risk" ->
         (CASE v < 50 -> "Critical" [] v >= 50 /\ v < 100 -> "High"
            [] v >= 100 /\ v < 150 -> "Medium" [] OTHER -> "Low")
    [] category = "valuation_risk" ->
         (CASE v > 6000 -> "High" [] v <= 6000 /\ v > 3000 -> "Medium"
            [] v <= 3000 /\ v > 0 -> "Low" [] OTHER -> "High")
    [] category = "profitability_risk" ->
         (CASE v < 0 -> "High" [] v >= 0 /\ v < 5 -> "Medium" [] OTHER -> "Low")
    [] category = "growth_risk" ->
         (CASE v < -10 -> "High" [] v >= -10 /\ v < 0 -> "Medium" [] OTHER -> "Low")
    [] OTHER ->
         (CASE v > 200 -> "High" [] v <= 200 /\ v > 120 -> "Medium" [] OTHER -> "Low")

\* C10: for every MetricsBundle each of the six categories has exactly the
\* level of the threshold table when its source metric is present, with the
\* raw metric as the indicator's value, and is omitted when the metric is
\* absent; a category's result is decided by its own metric alone.
Thm_C10_LevelsFollowTheTable ==
  Assessed =>
    /\ DOMAIN risk.out = {c \in CategorySet : SourceMetric(c) \in DOMAIN metrics}
    /\ \A c \in DOMAIN risk.out :
         /\ risk.out[c].level = TableLevel(c, metrics[SourceMetric(c)])
         /\ risk.out[c].value = metrics[SourceMetric(c)]
         /\ risk.out[c] =
              assess_financial_risk(SourceMetric(c) :> metrics[SourceMetric(c)])[c]

Wit_C10_SomeMetricsAbsent ==
  /\ Assessed
  /\ DOMAIN metrics = {"trailingPE", "beta"}
  /\ metrics["trailingPE"] = -1
  /\ DOMAIN risk.out = {"valuation_risk", "volatility_risk"}
  /\ risk.out["valuation_risk"].level = "High"

(***************************************************************************)
(* GeminiClient: _call_with_retry, generate and analyze_document, step by  *)
(* step.  The SDK's answers are chosen at each call.                       *)
(***************************************************************************)
\* def _call_with_retry(self, fn, max_retries: int = 4)
max_retries == 4

\* _MAX_TEXT_CHARS = 60_000
_MAX_TEXT_CHARS == 60000

\* the get_file calls of one upload that the record of a call keeps
MaxPolls == 2

\* messages of the exceptions the SDK raises
ERR_503 == <<"5", "0", "3">>
ERR_EXHAUSTED ==
  <<"R", "e", "s", "o", "u", "r", "c", "e", " ", "e", "x", "h", "a", "u", "s", "t", "e", "d">>
ERR_400 == <<"4", "0", "0">>
ModelErrors == {ERR_429, ERR_503, ERR_EXHAUSTED, ERR_400}
\* response.text raises when the response holds no valid part
ERR_NO_TEXT == <<"n", "o", " ", "v", "a", "l", "i", "d", " ", "P", "a", "r", "t">>
\* raise RuntimeError("Document processing failed on server.")
ERR_PROCESSING_FAILED ==
  <<"D", "o", "c", "u", "m", "e", "n", "t", " ", "p", "r", "o", "c", "e", "s", "s", "i", "n",
   "g", " ", "f", "a", "i", "l", "e", "d", " ", "o", "n", " ", "s", "e", "r", "v", "e", "r", ".">>
\* tempfile.NamedTemporaryFile or tmp.write raising OSError
ERR_NO_SPACE ==
  <<"N", "o", " ", "s", "p", "a", "c", "e", " ", "l", "e", "f", "t", " ", "o", "n", " ", "d",
   "e", "v", "i", "c", "e">>

\* if "429" in err_str or "503" in err_str or "Resource exhausted" in err_str
RetryableError(err_str) ==
  \/ Contains(err_str, <<"4", "2", "9">>)
  \/ Contains(err_str, <<"5", "0", "3">>)
  \/ Contains(err_str, <<"R", "e", "s", "o", "u", "r", "c", "e", " ", "e", "x", "h", "a", "u",
   "s", "t", "e", "d">>)

\* wait = 2 ** attempt + 1
wait(n) == 2 ^ n + 1

\* mutant of InRange: one iteration more than max_retries
InRange_OneMore(n) == n <= max_retries

\* for attempt in range(max_retries): is there another iteration
InRange(n) == n < max_retries

\* a PDF as PyPDF2 reads it: unreadable, or pages of extracted text, each
\* given by its number of characters and whether it is whitespace only
Page(chars, blank) == [chars |-> chars, blank |-> blank]
Documents ==
  {[readable |-> FALSE, pages |-> <<>>],
   [readable |-> TRUE, pages |-> <<>>],
   [readable |-> TRUE, pages |-> <<Page(3, TRUE)>>],
   [readable |-> TRUE, pages |-> <<Page(5, FALSE)>>],
   [readable |-> TRUE, pages |-> <<Page(0, TRUE), Page(7, FALSE), Page(9, FALSE)>>],
   [readable |-> TRUE, pages |-> <<Page(_MAX_TEXT_CHARS - 15, FALSE)>>],
   [readable |-> TRUE, pages |-> <<Page(_MAX_TEXT_CHARS - 14, FALSE)>>]}

\* f"--- Page {i + 1} ---\n": the number of characters, for i + 1 below 10
PageHeaderChars ==
  Len(<<"-", "-", "-", " ", "P", "a", "g", "e", " ", "1", " ", "-", "-", "-", "\n">>)

RECURSIVE JoinedChars(_)
\* "\n\n".join(pages): the number of characters
JoinedChars(lens) ==
  IF lens = <<>> THEN 0
  ELSE IF Len(lens) = 1 THEN lens[1]
  ELSE lens[1] + 2 + JoinedChars(Tail(lens))

\* _extract_pdf_text: the number of characters of the text it returns,
\* 0 for the empty string
_extract_pdf_text(pdf) ==
  IF ~pdf.readable THEN 0
  ELSE LET kept == SelectSeq(pdf.pages, LAMBDA p : ~p.blank /\ p.chars > 0)
       IN  JoinedChars([i \in 1..Len(kept) |-> PageHeaderChars + kept[i].chars])

TRUNCATION_MARKER ==
  <<"\n", "\n", ".", ".", ".", " ", "[", "t", "e", "x", "t", " ", "t", "r", "u", "n", "c", "a",
   "t", "e", "d", "]", " ", ".", ".", ".">>

\* mutant of Truncated: a text of exactly _MAX_TEXT_CHARS characters cut too
Truncated_AtLimit(chars) ==
  IF chars >= _MAX_TEXT_CHARS
  THEN [first |-> 1, last |-> _MAX_TEXT_CHARS, then |-> TRUNCATION_MARKER]
  ELSE [first |-> 1, last |-> chars, then |-> <<>>]

\* if len(pdf_text) > _MAX_TEXT_CHARS:
\*     pdf_text = pdf_text[:_MAX_TEXT_CHARS] + "\n\n... [text truncated] ..."
\* the text of `chars` characters as it is embedded: the positions of the
\* extracted text it keeps, and what is put after them
Truncated(chars) ==
  IF chars > _MAX_TEXT_CHARS
  THEN [first |-> 1, last |-> _MAX_TEXT_CHARS, then |-> TRUNCATION_MARKER]
  ELSE [first |-> 1, last |-> chars, then |-> <<>>]

\* len(pdf_text) of the embedded text
EmbeddedChars(t) == t.last - t.first + 1 + Len(t.then)

ERROR_ANALYZING ==
  <<"E", "r", "r", "o", "r", " ", "a", "n", "a", "l", "y", "z", "i", "n", "g", " ", "d", "o",
   "c", "u", "m", "e", "n", "t", ":", " ">>
COULD_NOT_EXTRACT ==
  <<"\n", "\n", "A", "d", "d", "i", "t", "i", "o", "n", "a", "l", "l", "y", ",", " ", "c", "o",
   "u", "l", "d", " ", "n", "o", "t", " ", "e", "x", "t", "r", "a", "c", "t", " ", "t", "e",
   "x", "t", " ", "f", "r", "o", "m", " ", "t", "h", "e", " ", "P", "D", "F", " ", "f", "o",
   "r", " ", "a", " ", "f", "a", "l", "l", "b", "a", "c", "k", " ", "a", "n", "a", "l", "y",
   "s", "i", "s", ".", " ", " ", "P", "l", "e", "a", "s", "e", " ", "t", "r", "y", " ", "a",
   "g", "a", "i", "n", " ", "i", "n", " ", "a", " ", "m", "i", "n", "u", "t", "e", ".">>

\* one entry of the record of what a call did
Ev(op, n, text) == [op |-> op, n |-> n, text |-> text]

InitGemini ==
  /\ QueryIdle
  /\ metrics = <<>>
  /\ risk = NotAssessed
  /\ FnIdle
  /\ SecIdle
  /\ GeminiIdle

\* the caller calls generate(prompt): lines 80-97 up to the retry helper
CallGenerate ==
  /\ gpc = "idle"
  /\ entry' = "generate"
  /\ frame' = "generate"
  /\ attempt' = 0
  /\ glog' = <<Ev("generate", 0, <<>>)>>
  /\ gpc' = "retry_loop"
  /\ UNCHANGED <<err, last_err, upload_err, tmp, file_state, polls, doc, gret, gexc>>
  /\ UNCHANGED <<queryVars, riskVars, fnVars, secVars>>

\* the caller calls analyze_document(file_bytes, query, filename)
CallAnalyzeDocument ==
  /\ gpc = "idle"
  /\ entry' = "analyze_document"
  /\ gpc' = "tempfile"
  /\ UNCHANGED <<frame, attempt, err, last_err, upload_err, glog, tmp, file_state, polls,
                 doc, gret, gexc>>
  /\ UNCHANGED <<queryVars, riskVars, fnVars, secVars>>

\* with tempfile.NamedTemporaryFile(delete=False, ...) as tmp:
\*     tmp.write(file_bytes); tmp_path = tmp.name
\* the file may not be created, or be created and the write fail before
\* tmp_path is assigned
CreateTempFile ==
  /\ gpc = "tempfile"
  /\ \E outcome \in {"written", "not_created", "write_failed"} :
       /\ tmp' = [exists |-> outcome # "not_created", path |-> outcome = "written"]
       /\ glog' = Append(glog, Ev("tempfile", 0, <<>>))
       /\ IF outcome = "written"
          THEN /\ frame' = "upload"
               /\ attempt' = 0
               /\ gpc' = "retry_loop"
               /\ UNCHANGED err
          ELSE /\ err' = ERR_NO_SPACE
               /\ gpc' = "upload_except"
               /\ UNCHANGED <<frame, attempt>>
  /\ UNCHANGED <<entry, last_err, upload_err, file_state, polls, doc, gret, gexc>>
  /\ UNCHANGED <<queryVars, riskVars, fnVars, secVars>>

\* mutant of generate_handler: return response.text placed after the try
\* statement
generate_handler_TextOutside(origin) ==
  IF origin = "response_text" THEN "raised" ELSE "generate_except"

\* where an exception raised inside generate's try block goes: the except
\* clause of generate covers the model call and response.text alike
generate_handler(origin) == "generate_except"

\* where an exception leaving fn or _call_with_retry is handled
Handler(fr, origin) == IF fr = "upload" THEN "upload_except" ELSE generate_handler(origin)

\* for attempt in range(max_retries): the next iteration calls fn(); after
\* the last one, raise last_err
RetryLoop ==
  /\ gpc = "retry_loop"
  /\ IF InRange(attempt)
     THEN /\ glog' = Append(glog, Ev("fn", attempt, <<>>))
          /\ gpc' = IF frame = "upload" THEN "upload_file" ELSE "generate_content"
          /\ UNCHANGED <<err, gexc>>
     ELSE /\ err' = last_err
          /\ gpc' = Handler(frame, "retry")
          /\ gexc' = IF Handler(frame, "retry") = "raised" THEN last_err ELSE gexc
          /\ UNCHANGED glog
  /\ UNCHANGED <<entry, frame, attempt, last_err, upload_err, tmp, file_state, polls, doc,
                 gret>>
  /\ UNCHANGED <<queryVars, riskVars, fnVars, secVars>>

FileStates == {"PROCESSING", "ACTIVE", "FAILED"}

\* uploaded_file = genai.upload_file(tmp_path, display_name=filename)
UploadFile ==
  /\ gpc = "upload_file"
  /\ glog' = Append(glog, Ev("upload_file", 0, <<>>))
  /\ polls' = 0
  /\ \/ \E e \in {ERR_429, ERR_400} :
          /\ err' = e
          /\ gpc' = "fn_raised"
          /\ UNCHANGED file_state
     \/ \E s \in FileStates :
          /\ file_state' = s
          /\ gpc' = "poll"
          /\ UNCHANGED err
  /\ UNCHANGED <<entry, frame, attempt, last_err, upload_err, tmp, doc, gret, gexc>>
  /\ UNCHANGED <<queryVars, riskVars, fnVars, secVars>>

\* while uploaded_file.state.name == "PROCESSING": time.sleep(1)
PollSleep ==
  /\ gpc = "poll"
  /\ file_state = "PROCESSING"
  /\ gpc' = "get_file"
  /\ UNCHANGED <<entry, frame, attempt, err, last_err, upload_err, glog, tmp, file_state,
                 polls, doc, gret, gexc>>
  /\ UNCHANGED <<queryVars, riskVars, fnVars, secVars>>

\* uploaded_file = genai.get_file(uploaded_file.name), then the loop test
\* again: nothing ends the loop while the service answers PROCESSING.  The
\* record keeps the first MaxPolls calls.
PollFile ==
  /\ gpc = "get_file"
  /\ polls' = Min(polls + 1, MaxPolls)
  /\ glog' = IF polls < MaxPolls THEN Append(glog, Ev("get_file", 1, <<>>)) ELSE glog
  /\ \/ \E e \in {ERR_503} :
          /\ err' = e
          /\ gpc' = "fn_raised"
          /\ UNCHANGED file_state
     \/ \E s \in FileStates :
          /\ file_state' = s
          /\ gpc' = "poll"
          /\ UNCHANGED err
  /\ UNCHANGED <<entry, frame, attempt, last_err, upload_err, tmp, doc, gret, gexc>>
  /\ UNCHANGED <<queryVars, riskVars, fnVars, secVars>>

\* if uploaded_file.state.name == "FAILED": raise RuntimeError(...)
CheckFile ==
  /\ gpc = "poll"
  /\ file_state # "PROCESSING"
  /\ IF file_state = "FAILED"
     THEN /\ err' = ERR_PROCESSING_FAILED
          /\ gpc' = "fn_raised"
     ELSE /\ gpc' = "generate_content"
          /\ UNCHANGED err
  /\ UNCHANGED <<entry, frame, attempt, last_err, upload_err, glog, tmp, file_state, polls,
                 doc, gret, gexc>>
  /\ UNCHANGED <<queryVars, riskVars, fnVars, secVars>>

\* model.generate_content(...): the body of _call, the last call of
\* _upload_and_generate
GenerateContent ==
  /\ gpc = "generate_content"
  /\ glog' = Append(glog, Ev("generate_content", 0, <<>>))
  /\ \/ \E e \in IF entry = "generate" THEN ModelErrors ELSE {ERR_429, ERR_400} :
          /\ err' = e
          /\ gpc' = "fn_raised"
     \/ /\ gpc' = "response_text"
        /\ UNCHANGED err
  /\ UNCHANGED <<entry, frame, attempt, last_err, upload_err, tmp, file_state, polls, doc,
                 gret, gexc>>
  /\ UNCHANGED <<queryVars, riskVars, fnVars, secVars>>

\* except Exception as e: in _call_with_retry: sleep and go round again on a
\* rate-limit or server-busy message, re-raise otherwise
RetryExcept ==
  /\ gpc = "fn_raised"
  /\ last_err' = err
  /\ IF RetryableError(err)
     THEN /\ glog' = Append(glog, Ev("sleep", wait(attempt), err))
          /\ attempt' = attempt + 1
          /\ err' = <<>>
          /\ gpc' = "retry_loop"
          /\ UNCHANGED gexc
     ELSE /\ gpc' = Handler(frame, "fn")
          /\ gexc' = IF Handler(frame, "fn") = "raised" THEN err ELSE gexc
          /\ UNCHANGED <<glog, attempt, err>>
  /\ UNCHANGED <<entry, frame, upload_err, tmp, file_state, polls, doc, gret>>
  /\ UNCHANGED <<queryVars, riskVars, fnVars, secVars>>

DOCUMENT_ANSWER == <<"D", "O", "C", " ", "A", "N", "S", "W", "E", "R">>

\* return fn() in _call_with_retry, then return response.text in the caller
ResponseText ==
  /\ gpc = "response_text"
  /\ \/ /\ gret' = IF frame = "upload" THEN DOCUMENT_ANSWER ELSE ANSWER_TEXT
        /\ gpc' = IF entry = "generate" THEN "done" ELSE "finally"
        /\ UNCHANGED <<err, gexc>>
     \/ /\ err' = ERR_NO_TEXT
        /\ gpc' = Handler(frame, "response_text")
        /\ gexc' = IF Handler(frame, "response_text") = "raised" THEN ERR_NO_TEXT ELSE gexc
        /\ UNCHANGED gret
  /\ UNCHANGED <<entry, frame, attempt, last_err, upload_err, glog, tmp, file_state, polls,
                 doc>>
  /\ UNCHANGED <<queryVars, riskVars, fnVars, secVars>>

\* except Exception as e: return f"Error generating response: {str(e)}"
GenerateExcept ==
  /\ gpc = "generate_except"
  /\ gret' = ERROR_PREFIX \o err
  /\ gpc' = IF entry = "generate" THEN "done" ELSE "finally"
  /\ UNCHANGED <<entry, frame, attempt, err, last_err, upload_err, glog, tmp, file_state,
                 polls, doc, gexc>>
  /\ UNCHANGED <<queryVars, riskVars, fnVars, secVars>>

\* mutant of HasText: the fallback attempted whatever was extracted
HasText_Always(chars) == TRUE

\* if not pdf_text: the test that chooses between the failure message and
\* the fallback
HasText(chars) == chars # 0

\* mutant of FailureMessage: the upload error left out of the message
FailureMessage_NoCause(e) == ERROR_ANALYZING \o COULD_NOT_EXTRACT

\* f"Error analyzing document: {upload_err}\n\n" "Additionally, ..."
FailureMessage(e) == ERROR_ANALYZING \o e \o COULD_NOT_EXTRACT

\* except Exception as upload_err: local extraction, then the combined
\* failure message or the text-generation fallback; what file_bytes holds
\* shows here, where it is first read
UploadExcept ==
  /\ gpc = "upload_except"
  /\ upload_err' = err
  /\ \E d \in Documents :
     LET chars == _extract_pdf_text(d)
         read  == Append(glog, Ev("_extract_pdf_text", chars, <<>>))
     IN  /\ doc' = d
         /\ IF HasText(chars)
            THEN /\ glog' = Append(read, Ev("generate", EmbeddedChars(Truncated(chars)), Truncated(chars)))
                 /\ frame' = "generate"
                 /\ attempt' = 0
                 /\ last_err' = <<>>
                 /\ err' = <<>>
                 /\ gpc' = "retry_loop"
                 /\ UNCHANGED gret
            ELSE /\ glog' = read
                 /\ gret' = FailureMessage(err)
                 /\ gpc' = "finally"
                 /\ UNCHANGED <<frame, attempt, last_err, err>>
  /\ UNCHANGED <<entry, tmp, file_state, polls, gexc>>
  /\ UNCHANGED <<queryVars, riskVars, fnVars, secVars>>

\* finally: if tmp_path and os.path.exists(tmp_path): os.unlink(tmp_path)
Finally ==
  /\ gpc = "finally"
  /\ IF tmp.path /\ tmp.exists
     THEN /\ tmp' = [tmp EXCEPT !.exists = FALSE]
          /\ glog' = Append(glog, Ev("unlink", 0, <<>>))
     ELSE UNCHANGED <<tmp, glog>>
  /\ gpc' = "done"
  /\ UNCHANGED <<entry, frame, attempt, err, last_err, upload_err, file_state, polls, doc,
                 gret, gexc>>
  /\ UNCHANGED <<queryVars, riskVars, fnVars, secVars>>

NextGemini ==
  \/ CallGenerate
  \/ CallAnalyzeDocument
  \/ CreateTempFile
  \/ RetryLoop
  \/ UploadFile
  \/ PollSleep
  \/ PollFile
  \/ CheckFile
  \/ GenerateContent
  \/ RetryExcept
  \/ ResponseText
  \/ GenerateExcept
  \/ UploadExcept
  \/ Finally

SpecGemini == InitGemini /\ [][NextGemini]_vars

\* the same, every enabled step being taken eventually: the interpreter goes
\* on; what the services answer stays free
SpecGeminiFair == SpecGemini /\ WF_vars(NextGemini)

\* generate alone
NextGenerate ==
  \/ CallGenerate
  \/ RetryLoop
  \/ GenerateContent
  \/ RetryExcept
  \/ ResponseText
  \/ GenerateExcept

SpecGenerate == InitGemini /\ [][NextGenerate]_vars

\* the same, every enabled step being taken eventually: the call is
\* synchronous and the interpreter goes on until it returns or raises
SpecGenerateFair == SpecGenerate /\ WF_vars(NextGenerate)

(***************************************************************************)
(* Helper functions on their own: an argument is drawn, then the function  *)
(* is applied to it.                                                       *)
(***************************************************************************)
\* the longest raw answer built from RawAlphabet
MaxRawLen == 4

RawAlphabet == {"a", "B", ",", " ", "1"}

\* "AAPL, MSFT 123, GOOGL"
RAW_EXAMPLE ==
  <<"A", "A", "P", "L", ",", " ", "M", "S", "F", "T", " ", "1", "2", "3", ",", " ", "G", "O",
   "O", "G", "L">>
\* "NoNe", "NONE\n", "NONE, a", "\tnone ,"
RAW_NONE_MIXED == <<"N", "o", "N", "e">>
RAW_NONE_NEWLINE == <<"N", "O", "N", "E", "\n">>
RAW_NONE_FIRST == <<"N", "O", "N", "E", ",", " ", "a">>
RAW_NONE_COMMA == <<"\t", "n", "o", "n", "e", " ", ",">>

\* raw answers of the model to the ticker-extraction prompt, at large
RawTexts ==
  SeqsUpTo(RawAlphabet, MaxRawLen) \cup RawTickerOutputs
  \cup {RAW_EXAMPLE, RAW_NONE_MIXED, RAW_NONE_NEWLINE, RAW_NONE_FIRST, RAW_NONE_COMMA}

Applied(v) == [done |-> TRUE, value |-> v]

\* tickers = self._extract_tickers(query), on the text generate returned
ApplyExtractTickers ==
  /\ ~fn_out.done
  /\ fn_in.fn = "_extract_tickers"
  /\ fn_out' = Applied(_extract_tickers(fn_in.arg))
  /\ UNCHANGED <<fn_in, queryVars, riskVars, geminiVars, secVars>>

(***************************************************************************)
(* format_percentage and format_large_number.  A percentage argument is    *)
(* given in ten-thousandths, a large number by its sign and its decimal    *)
(* digits; None is the argument with none = TRUE.                          *)
(***************************************************************************)
NA_TEXT == <<"N", "/", "A">>
DIGIT_CHARS == <<"0", "1", "2", "3", "4", "5", "6", "7", "8", "9">>

Abs(n) == IF n < 0 THEN -n ELSE n

\* the decimal digits of a natural number, as characters
RECURSIVE DecimalText(_)
DecimalText(n) ==
  IF n < 10 THEN <<DIGIT_CHARS[n + 1]>>
  ELSE Append(DecimalText(n \div 10), DIGIT_CHARS[(n % 10) + 1])

\* n / d rounded to the nearest integer, for n >= 0 (the samples hold no
\* value halfway between two results)
RoundDiv(n, d) == (2 * n + d) \div (2 * d)

\* f"{x:.2f}" for x given in hundredths, f"{x:.1f}" for x given in tenths
FixedText(negative, scaled, places) ==
  LET unit == IF places = 2 THEN 100 ELSE 10
      frac == DecimalText(scaled % unit)
      pad  == IF Len(frac) < places THEN <<"0">> ELSE <<>>
  IN  (IF negative THEN <<"-">> ELSE <<>>)
      \o DecimalText(scaled \div unit) \o <<".">> \o pad \o frac

NoValue == [none |-> TRUE, tt |-> 0]
Percent(tt) == [none |-> FALSE, tt |-> tt]

\* mutant of format_percentage: a magnitude of exactly 1 scaled as well
format_percentage_Inclusive(val) ==
  IF val.none THEN NA_TEXT
  ELSE IF Abs(val.tt) <= 10000
  THEN FixedText(val.tt < 0, Abs(val.tt), 2) \o <<"%">>
  ELSE FixedText(val.tt < 0, RoundDiv(Abs(val.tt), 100), 2) \o <<"%">>

\* format_percentage(val): abs(val) < 1 is |tt| < 10000, and val * 100 in
\* hundredths is tt itself
format_percentage(val) ==
  IF val.none THEN NA_TEXT
  ELSE IF Abs(val.tt) < 10000
  THEN FixedText(val.tt < 0, Abs(val.tt), 2) \o <<"%">>
  ELSE FixedText(val.tt < 0, RoundDiv(Abs(val.tt), 100), 2) \o <<"%">>

\* arguments of format_percentage: None, every value from -1.02 to 1.02 in
\* steps of 0.0001 that is not halfway between two renderings, 54.3,
\* 123.4567 and -7.2
PercentArgs ==
  {NoValue}
  \cup {Percent(tt) : tt \in {u \in -10200..10200 : Abs(u) >= 10000 => u % 100 # 50}}
  \cup {Percent(543000), Percent(1234567), Percent(-72000)}

ApplyFormatPercentage ==
  /\ ~fn_out.done
  /\ fn_in.fn = "format_percentage"
  /\ fn_out' = Applied(format_percentage(fn_in.arg))
  /\ UNCHANGED <<fn_in, queryVars, riskVars, geminiVars, secVars>>

NoNumber == [none |-> TRUE, negative |-> FALSE, digits |-> <<0>>]
Number(negative, digits) == [none |-> FALSE, negative |-> negative, digits |-> digits]
Zeros(n) == [i \in 1..n |-> 0]

\* the natural number with the given decimal digits
RECURSIVE ToNat(_)
ToNat(digits) ==
  IF digits = <<>> THEN 0 ELSE 10 * ToNat(SubSeq(digits, 1, Len(digits) - 1)) + digits[Len(digits)]

\* mutant of AtLeastPow10: the threshold itself excluded
AtLeastPow10_Exclusive(digits, k) ==
  Len(digits) > k /\ digits # <<1>> \o Zeros(k)

\* abs(num) >= 1e12, 1e9, 1e6, 1e3: a number without leading zeros is at
\* least 10^k when it has more than k digits
AtLeastPow10(digits, k) == Len(digits) > k

\* num / 10^k rounded to the given number of decimal places, scaled to an
\* integer
Quotient(digits, k, places) ==
  LET keep == Len(digits) - k + places
      kept == ToNat(SubSeq(digits, 1, keep))
  IN  IF digits[keep + 1] >= 5 THEN kept + 1 ELSE kept

\* f"${num / 10^k:.2f}<suffix>"
Money(num, k, places, suffix) ==
  <<"$">> \o FixedText(num.negative, Quotient(num.digits, k, places), places) \o suffix

\* format_large_number(num)
format_large_number(num) ==
  IF num.none THEN NA_TEXT
  ELSE IF AtLeastPow10(num.digits, 12) THEN Money(num, 12, 2, <<"T">>)
  ELSE IF AtLeastPow10(num.digits, 9) THEN Money(num, 9, 2, <<"B">>)
  ELSE IF AtLeastPow10(num.digits, 6) THEN Money(num, 6, 2, <<"M">>)
  ELSE IF AtLeastPow10(num.digits, 3) THEN Money(num, 3, 1, <<"K">>)
  ELSE <<"$">> \o FixedText(num.negative, 100 * ToNat(num.digits), 2)

\* leading digits of the arguments of format_large_number; none of the
\* numbers built from them lies halfway between two renderings
Mantissas ==
  {<<1>>, <<1, 5>>, <<9, 9, 9>>, <<1, 0, 0, 1>>, <<1, 2, 3, 4, 5, 6>>, <<9, 9, 9, 9, 9, 9>>}

\* arguments of format_large_number: None, 0, and the mantissas followed by
\* up to 12 zeros, of either sign and at most 15 digits
LargeNumberArgs ==
  {NoNumber, Number(FALSE, <<0>>)}
  \cup {n \in {Number(neg, m \o Zeros(e)) : neg \in BOOLEAN, m \in Mantissas, e \in 0..12} :
          Len(n.digits) <= 15}

ApplyFormatLargeNumber ==
  /\ ~fn_out.done
  /\ fn_in.fn = "format_large_number"
  /\ fn_out' = Applied(format_large_number(fn_in.arg))
  /\ UNCHANGED <<fn_in, queryVars, riskVars, geminiVars, secVars>>

(***************************************************************************)
(* get_stock_info with its retries.  The upstream is the sequence of what  *)
(* yf.Ticker(ticker).info does at each fetch: it raises, or it yields a    *)
(* dict.  The i-th dict holds i under its keys, so that a result tells     *)
(* which fetch it came from; a stale error flag is the text STALE_ERROR.   *)
(***************************************************************************)
\* for attempt in range(3)
LOOP_ATTEMPTS == 3
\* time.sleep(0.5), in tenths of a second
RETRY_DELAY == 5
\* if info and len(info) > 3
FINAL_MIN_KEYS == 3

meaningful_keys == {"currentPrice", "marketCap", "shortName", "longName", "sector"}

STALE_ERROR == <<"s", "t", "a", "l", "e">>
\* str(e) of the exception a fetch raises
ERR_TIMEOUT == <<"t", "i", "m", "e", "d", " ", "o", "u", "t">>

Raises == [raises |-> TRUE, info |-> <<>>]
Yields(keys, i) ==
  [raises |-> FALSE, info |-> [k \in keys |-> IF k = "error" THEN STALE_ERROR ELSE i]]

\* the key sets of the dicts the upstream yields
InfoShapes ==
  {{}, {"error"}, {"currentPrice", "error"}, {"currentPrice", "beta", "error"},
   {"beta", "volume", "maxAge", "error"}, {"sector", "beta", "volume", "maxAge"}}

\* what one fetch does: it raises, or it yields a dict of a given shape
FetchKinds ==
  {[raises |-> TRUE, keys |-> {}]} \cup {[raises |-> FALSE, keys |-> s] : s \in InfoShapes}

\* what the upstream does at the four fetches
UpstreamRuns ==
  {[i \in 1..(LOOP_ATTEMPTS + 1) |-> IF f[i].raises THEN Raises ELSE Yields(f[i].keys, i)] :
     f \in [1..(LOOP_ATTEMPTS + 1) -> FetchKinds]}

StockResult(info, fetches, sleeps) == [info |-> info, fetches |-> fetches, sleeps |-> sleeps]

\* mutant of FinalUsable: a dict of three keys accepted as well
FinalUsable_ThreeKeys(info) == DOMAIN info # {} /\ Cardinality(DOMAIN info) >= FINAL_MIN_KEYS

\* if info and len(info) > 3
FinalUsable(info) == DOMAIN info # {} /\ Cardinality(DOMAIN info) > FINAL_MIN_KEYS

\* the final attempt, after the loop
FinalAttempt(upstream, ticker, sleeps) ==
  LET a == upstream[LOOP_ATTEMPTS + 1]
  IN  IF a.raises THEN StockResult([error |-> ERR_TIMEOUT], LOOP_ATTEMPTS + 1, sleeps)
      ELSE IF FinalUsable(a.info)
      THEN StockResult(Without(a.info, {"error"}), LOOP_ATTEMPTS + 1, sleeps)
      ELSE StockResult(ErrorSentinel(ticker), LOOP_ATTEMPTS + 1, sleeps)

\* the loop of get_stock_info from attempt n on
RECURSIVE get_stock_info_from(_, _, _, _)
get_stock_info_from(upstream, ticker, n, sleeps) ==
  IF n >= LOOP_ATTEMPTS THEN FinalAttempt(upstream, ticker, sleeps)
  ELSE LET a == upstream[n + 1]
       IN  IF ~a.raises /\ meaningful_keys \cap DOMAIN a.info # {}
           THEN StockResult(Without(a.info, {"error"}), n + 1, sleeps)
           ELSE get_stock_info_from(upstream, ticker, n + 1, Append(sleeps, RETRY_DELAY))

ApplyGetStockInfo ==
  /\ ~fn_out.done
  /\ fn_in.fn = "get_stock_info"
  /\ fn_out' = Applied(get_stock_info_from(fn_in.arg, <<"A">>, 0, <<>>))
  /\ UNCHANGED <<fn_in, queryVars, riskVars, geminiVars, secVars>>

(***************************************************************************)
(* get_company_filings.  The upstream answer to the submissions request    *)
(* is an exception or the parallel lists of filings.recent; the i-th       *)
(* filing has accession number and date i.                                 *)
(***************************************************************************)
\* the longest list of forms the upstream answers with
MaxForms == 3

FORM_10K == <<"1", "0", "-", "K">>
FORM_10Q == <<"1", "0", "-", "Q">>
FORM_8K == <<"8", "-", "K">>
\* str(e) of a failed request, and of an index outside a list
ERR_HTTP == <<"H", "T", "T", "P", " ", "5", "0", "3">>
ERR_INDEX == <<"l", "i", "s", "t", " ", "i", "n", "d", "e", "x">>

\* forms: recent["form"]; listed: the length of recent["accessionNumber"] and
\* recent["filingDate"]; docs: whether primaryDocument and
\* primaryDocDescription are there
Submissions(raises, forms, listed, docs) ==
  [raises |-> raises, forms |-> forms, listed |-> listed, docs |-> docs]

SubmissionsAnswers ==
  {Submissions(TRUE, <<>>, 0, FALSE)}
  \cup {Submissions(FALSE, f, n, d) :
          f \in SeqsUpTo({FORM_10K, FORM_10Q, FORM_8K}, MaxForms),
          n \in 0..MaxForms, d \in BOOLEAN}

FilingRecord(recent, i) ==
  [accession_number |-> i, filing_date |-> i, form |-> recent.forms[i],
   primary_document |-> IF recent.docs THEN i ELSE 0,
   description |-> IF recent.docs THEN i ELSE 0]

\* for i, form in enumerate(forms): the filings collected from index i on;
\* the exception of recent["accessionNumber"][i] ends the loop
RECURSIVE CollectFilings(_, _, _, _, _)
CollectFilings(recent, filing_type, count, i, filings) ==
  IF i > Len(recent.forms) THEN [raised |-> FALSE, filings |-> filings]
  ELSE IF recent.forms[i] = filing_type /\ Len(filings) < count
  THEN IF i > recent.listed THEN [raised |-> TRUE, filings |-> filings]
       ELSE CollectFilings(recent, filing_type, count, i + 1,
                           Append(filings, FilingRecord(recent, i)))
  ELSE CollectFilings(recent, filing_type, count, i + 1, filings)

\* get_company_filings(ticker, filing_type, count), cik being what
\* get_cik_from_ticker returned
get_company_filings(cik, upstream, filing_type, count) ==
  LET out == CollectFilings(upstream, filing_type, count, 1, <<>>)
  IN  IF cik = <<>> THEN <<>>
      ELSE IF upstream.raises THEN <<[error |-> ERR_HTTP]>>
      ELSE IF out.raised THEN <<[error |-> ERR_INDEX]>>
      ELSE out.filings

\* Recent 10-K Filings: {len(filings)} found
FilingsFound(filings) == Len(filings)

FilingsArgs ==
  [cik : {<<>>, <<"0", "0", "0", "1", "0", "9", "0", "8", "7", "2">>},
   upstream : SubmissionsAnswers, filing_type : {FORM_10K, FORM_10Q}, count : 1..2]

ApplyGetCompanyFilings ==
  /\ ~fn_out.done
  /\ fn_in.fn = "get_company_filings"
  /\ LET a == fn_in.arg
         filings == get_company_filings(a.cik, a.upstream, a.filing_type, a.count)
     IN  fn_out' = Applied([filings |-> filings, found |-> FilingsFound(filings)])
  /\ UNCHANGED <<fn_in, queryVars, riskVars, geminiVars, secVars>>

(***************************************************************************)
(* DocumentAgent.extract_key_metrics_from_xbrl.  facts["facts"]["us-gaap"] *)
(* is a function from concepts to units, units a function from unit types  *)
(* to lists of datapoints.  A datapoint holds its form, whether it has a   *)
(* frame field, its period end as a day number, and a value that names its *)
(* concept, unit type and position.                                        *)
(***************************************************************************)
\* the longest list of datapoints of one unit type
MaxPoints == 4
\* recent = annual_values[-3:]
RECENT_YEARS == 3

key_items ==
  <<<<"Revenues", "revenue">>,
    <<"RevenueFromContractWithCustomerExcludingAssessedTax", "revenue">>,
    <<"NetIncomeLoss", "net_income">>,
    <<"EarningsPerShareBasic", "eps_basic">>,
    <<"EarningsPerShareDiluted", "eps_diluted">>,
    <<"Assets", "total_assets">>,
    <<"Liabilities", "total_liabilities">>,
    <<"StockholdersEquity", "stockholders_equity">>,
    <<"OperatingIncomeLoss", "operating_income">>,
    <<"GrossProfit", "gross_profit">>,
    <<"CashAndCashEquivalentsAtCarryingValue", "cash">>,
    <<"LongTermDebt", "long_term_debt">>,
    <<"CommonStockSharesOutstanding", "shares_outstanding">>>>

unit_types == <<"USD", "USD/shares", "shares">>

PointKind(form, framed, end) == [form |-> form, framed |-> framed, end |-> end]
PointKinds ==
  {PointKind("10-K", FALSE, 1), PointKind("10-K/A", FALSE, 2), PointKind("10-Q", FALSE, 3),
   PointKind("10-K", TRUE, 4), PointKind("10-K", FALSE, 3)}

\* the datapoints of a concept and unit type, of the given kinds
Points(concept, unit, kinds) ==
  [i \in 1..Len(kinds) |->
     [form |-> kinds[i].form, framed |-> kinds[i].framed, end |-> kinds[i].end,
      val |-> <<concept, unit, i>>]]

Units(concept, unit, kinds) == unit :> Points(concept, unit, kinds)

FOUR_YEARS ==
  <<PointKind("10-K", FALSE, 3), PointKind("10-K", FALSE, 1), PointKind("10-K/A", FALSE, 2),
    PointKind("10-K", FALSE, 3)>>
NOT_ANNUAL == <<PointKind("10-Q", FALSE, 3), PointKind("10-K", TRUE, 4)>>

\* answers of get_company_facts: the error dict, one concept with one USD
\* list of every shape, and combinations of concepts and unit types
NoFacts == [error |-> TRUE, us_gaap |-> <<>>]
Facts(us_gaap) == [error |-> FALSE, us_gaap |-> us_gaap]
FactsSamples ==
  {NoFacts, Facts(<<>>)}
  \cup {Facts(c :> Units(c, "USD", kinds)) :
          c \in {"Revenues", "NetIncomeLoss", "Goodwill"},
          kinds \in SeqsUpTo(PointKinds, MaxPoints)}
  \cup {Facts(("Revenues" :> Units("Revenues", "USD", a))
              @@ ("RevenueFromContractWithCustomerExcludingAssessedTax"
                    :> Units("RevenueFromContractWithCustomerExcludingAssessedTax", "USD", b))
              @@ ("Goodwill" :> Units("Goodwill", "USD", FOUR_YEARS))) :
          a \in {FOUR_YEARS, NOT_ANNUAL}, b \in {FOUR_YEARS, NOT_ANNUAL, <<>>}}
  \cup {Facts("Assets" :> (Units("Assets", u, a) @@ Units("Assets", "shares", FOUR_YEARS))) :
          u \in {"USD", "USD/shares", "EUR"}, a \in {FOUR_YEARS, NOT_ANNUAL}}

\* annual_values.sort(key=lambda x: x.get("end", "")): a stable sort
RECURSIVE SortByEnd(_)
SortByEnd(values) ==
  IF values = <<>> THEN <<>>
  ELSE LET front == SortByEnd(SubSeq(values, 1, Len(values) - 1))
           x == values[Len(values)]
           before == Cardinality({i \in 1..Len(front) : front[i].end <= x.end})
       IN  SubSeq(front, 1, before) \o <<x>> \o SubSeq(front, before + 1, Len(front))

\* mutant of Recent: the first three taken
Recent_First(annual_values) ==
  SubSeq(annual_values, 1, Min(RECENT_YEARS, Len(annual_values)))

\* annual_values[-3:]
Recent(annual_values) ==
  SubSeq(annual_values, Len(annual_values) - Min(RECENT_YEARS, Len(annual_values)) + 1,
         Len(annual_values))

\* if v.get("form") in ("10-K", "10-K/A") and "frame" not in v
IsAnnual(v) == v.form \in {"10-K", "10-K/A"} /\ ~v.framed

\* the entry of metrics built from the values of one unit type
MetricEntry(values) ==
  LET recent == Recent(SortByEnd(SelectSeq(values, IsAnnual)))
  IN  [k \in 1..Len(recent) |->
         [value |-> recent[k].val, period_end |-> recent[k].end, period_start |-> <<>>,
          filed |-> <<>>]]

\* for unit_type in [...]: if unit_type in units: ...; break
FirstUnit(units) ==
  LET present == SelectSeq(unit_types, LAMBDA u : u \in DOMAIN units)
  IN  IF present = <<>> THEN "" ELSE present[1]

\* for xbrl_key, label in key_items.items(): the items from the k-th on
RECURSIVE ExtractItems(_, _, _)
ExtractItems(us_gaap, k, out) ==
  IF k > Len(key_items) THEN out
  ELSE LET xbrl_key == key_items[k][1]
           label == key_items[k][2]
           units == IF xbrl_key \in DOMAIN us_gaap THEN us_gaap[xbrl_key] ELSE <<>>
           unit == FirstUnit(units)
       IN  IF unit # "" /\ SelectSeq(units[unit], IsAnnual) # <<>>
           THEN ExtractItems(us_gaap, k + 1, (label :> MetricEntry(units[unit])) @@ out)
           ELSE ExtractItems(us_gaap, k + 1, out)

ERR_CIK_NOT_FOUND ==
  <<"C", "I", "K", " ", "n", "o", "t", " ", "f", "o", "u", "n", "d">>

\* extract_key_metrics_from_xbrl(ticker), facts being what get_company_facts
\* returned
extract_key_metrics_from_xbrl(facts) ==
  IF facts.error THEN [error |-> ERR_CIK_NOT_FOUND]
  ELSE ExtractItems(facts.us_gaap, 1, <<>>)

ApplyExtractKeyMetrics ==
  /\ ~fn_out.done
  /\ fn_in.fn = "extract_key_metrics_from_xbrl"
  /\ fn_out' = Applied(extract_key_metrics_from_xbrl(fn_in.arg))
  /\ UNCHANGED <<fn_in, queryVars, riskVars, geminiVars, secVars>>

(***************************************************************************)
(* RiskAgent.comprehensive_risk_analysis, the data context of its prompt.  *)
(* The operation asks the Data Provider for the key metrics twice: once    *)
(* itself and once inside assess_financial_risk.  The lines of FINANCIAL   *)
(* METRICS that print a metric as fetched are modelled (Debt/Equity,       *)
(* Current Ratio, P/E Ratio, Beta); the fetched bundles hold these metrics *)
(* only.  Values are hundredths.                                           *)
(***************************************************************************)
\* - Debt/Equity: {metrics.get('debtToEquity', 'N/A')} and the three after it
MetricLines ==
  <<<<"Debt/Equity", "debtToEquity">>, <<"Current Ratio", "currentRatio">>,
    <<"P/E Ratio", "trailingPE">>, <<"Beta", "beta">>>>

\* {d.get(key, 'N/A')}: the value printed, or N/A
Listed(d, field, key) ==
  [field |-> field, na |-> key \notin DOMAIN d,
   value |-> IF key \in DOMAIN d THEN d[key] ELSE 0]

\* data_context: the FINANCIAL METRICS lines of `fetched`, then one line per
\* entry of risk_data that carries a level
data_context(fetched, risk_data) ==
  [financial  |-> [i \in 1..Len(MetricLines) |->
                     Listed(fetched, MetricLines[i][1], MetricLines[i][2])],
   assessment |-> LevelItems(risk_data)]

\* metrics = get_key_metrics(ticker); risk_data = self.assess_financial_risk(ticker):
\* `direct` is what the first fetch returned, `inside` what the fetch inside
\* assess_financial_risk returned
comprehensive_risk_context(direct, inside) ==
  data_context(direct, assess_financial_risk(inside))

\* answers of get_key_metrics: the error sentinel, no risk metric, and
\* values on both sides of a threshold
KeyMetricsAnswers ==
  {ErrorSentinel(<<"A">>), <<>>, "debtToEquity" :> 10001, "currentRatio" :> 99}
  \cup {("debtToEquity" :> d) @@ ("beta" :> b) @@ ("trailingPE" :> pe) :
          d \in {5000, 20001}, b \in {120, 201}, pe \in {3000, 6001}}

\* the answers to the two fetches of one call
FetchPairs == {[direct |-> a, inside |-> b] : a, b \in KeyMetricsAnswers}

ApplyComprehensiveRiskContext ==
  /\ ~fn_out.done
  /\ fn_in.fn = "comprehensive_risk_analysis"
  /\ fn_out' = Applied(comprehensive_risk_context(fn_in.arg.direct, fn_in.arg.inside))
  /\ UNCHANGED <<fn_in, queryVars, riskVars, geminiVars, secVars>>

FnCall(fn, arg) == [fn |-> fn, arg |-> arg]

InitHelpers ==
  /\ QueryIdle
  /\ metrics = <<>>
  /\ risk = NotAssessed
  /\ GeminiIdle
  /\ SecIdle
  /\ fn_out = NotApplied
  /\ fn_in \in {FnCall("_extract_tickers", raw) : raw \in RawTexts}
            \cup {FnCall("format_percentage", v) : v \in PercentArgs}
            \cup {FnCall("format_large_number", n) : n \in LargeNumberArgs}
            \cup {FnCall("get_stock_info", u) : u \in UpstreamRuns}
            \cup {FnCall("get_company_filings", a) : a \in FilingsArgs}
            \cup {FnCall("extract_key_metrics_from_xbrl", f) : f \in FactsSamples}
            \cup {FnCall("comprehensive_risk_analysis", p) : p \in FetchPairs}

NextHelpers ==
  \/ ApplyExtractTickers
  \/ ApplyFormatPercentage
  \/ ApplyFormatLargeNumber
  \/ ApplyGetStockInfo
  \/ ApplyGetCompanyFilings
  \/ ApplyExtractKeyMetrics
  \/ ApplyComprehensiveRiskContext

SpecHelpers == InitHelpers /\ [][NextHelpers]_vars

(***************************************************************************)
(* Properties of generate and _call_with_retry (specification              *)
(* SpecGenerate).                                                          *)
(***************************************************************************)
GenerateReturned == entry = "generate" /\ gpc = "done"

\* the events of a given kind in the record of a call
EventsOf(log, op) == SelectSeq(log, LAMBDA ev : ev.op = op)

\* C12: generate never raises to its caller: after a non-retryable
\* exception, after rate-limit errors on every attempt and after a failure
\* while reading response.text alike it returns the string
\* "Error generating response: " followed by the error, and otherwise the
\* text of the response.
Thm_C12_GenerateNeverRaises ==
  /\ gpc # "raised"
  /\ gexc = <<>>
  /\ GenerateReturned =>
       IF err = <<>> THEN gret = ANSWER_TEXT
       ELSE /\ gret = ERROR_PREFIX \o err
            /\ \/ err = ERR_NO_TEXT
               \/ err = ERR_400
               \/ RetryableError(err) /\ Len(EventsOf(glog, "sleep")) = max_retries

Wit_C12_FailureReadingResponseText ==
  /\ GenerateReturned
  /\ err = ERR_NO_TEXT
  /\ gret = ERROR_PREFIX \o ERR_NO_TEXT
  /\ Len(EventsOf(glog, "sleep")) = 2

BackoffDelays == <<2, 3, 5, 9>>

\* C13: on rate-limit and server-busy errors _call_with_retry retries up to 4
\* times with delays of 2, 3, 5 and 9 seconds, each delay being followed by a
\* further attempt; any other error is re-raised at once, and the first
\* successful attempt returns at once: so a finished call has made one
\* attempt more than it has slept, and nothing follows its last attempt.
CE_C13_EachDelayIsFollowedByAnAttempt ==
  GenerateReturned =>
    LET sleeps == EventsOf(glog, "sleep")
    IN  /\ Len(sleeps) <= Len(BackoffDelays)
        /\ \A i \in 1..Len(sleeps) :
             sleeps[i].n = BackoffDelays[i] /\ RetryableError(sleeps[i].text)
        /\ \A k \in 1..Len(glog) :
             glog[k].op = "sleep" => k < Len(glog) /\ glog[k + 1].op = "fn"
        /\ Len(EventsOf(glog, "fn")) = Len(sleeps) + 1
        /\ glog[Len(glog)].op = "generate_content"

RateLimitedThroughout ==
  /\ Len(EventsOf(glog, "sleep")) = Len(EventsOf(glog, "fn"))
  /\ \A k \in 1..Len(glog) : glog[k].op = "sleep" => glog[k].text = ERR_429

\* C14: a generate call terminates, also when every attempt fails with a
\* rate-limit signal: the attempts never exceed max_retries, and after
\* max_retries rate-limited attempts _call_with_retry raises the last error,
\* which generate returns as its error string.
Thm_C14_RetryExhaustionTerminates ==
  /\ [](Len(EventsOf(glog, "fn")) <= max_retries)
  /\ [](GenerateReturned /\ RateLimitedThroughout =>
          /\ Len(EventsOf(glog, "fn")) = max_retries
          /\ gret = ERROR_PREFIX \o ERR_429)
  /\ (entry = "generate") ~> (gpc = "done")

Wit_C14_RateLimitedOnEveryAttempt ==
  /\ GenerateReturned
  /\ RateLimitedThroughout
  /\ Len(EventsOf(glog, "fn")) = max_retries

(***************************************************************************)
(* Properties of analyze_document (specification SpecGemini).              *)
(***************************************************************************)
AnalyzeReturned == entry = "analyze_document" /\ gpc = "done"

\* the document has a page with text that is not whitespace
HasReadableText(pdf) ==
  pdf.readable /\ \E i \in 1..Len(pdf.pages) : ~pdf.pages[i].blank /\ pdf.pages[i].chars > 0

\* what generate can return
GenerateResults == {ANSWER_TEXT} \cup {ERROR_PREFIX \o e : e \in ModelErrors \cup {ERR_NO_TEXT}}

\* C15: analyze_document issues the text-generation fallback if and only if
\* the upload attempt ended with an exception and local extraction yielded
\* text; then exactly one fallback generation call is made and its result is
\* the response; when the upload attempt succeeds the uploaded-file answer
\* is returned with no local extraction and no fallback call.
Thm_C15_FallbackIffUploadFailedAndTextExtracted ==
  /\ Len(EventsOf(glog, "generate")) <= 1
  /\ AnalyzeReturned =>
       IF upload_err = <<>>
       THEN /\ gret = DOCUMENT_ANSWER
            /\ EventsOf(glog, "_extract_pdf_text") = <<>>
            /\ EventsOf(glog, "generate") = <<>>
       ELSE IF HasReadableText(doc)
       THEN /\ Len(EventsOf(glog, "generate")) = 1
            /\ gret \in GenerateResults
            /\ gret = IF err = <<>> THEN ANSWER_TEXT ELSE ERROR_PREFIX \o err
       ELSE EventsOf(glog, "generate") = <<>>

Wit_C15_FallbackAfterProcessingFailed ==
  /\ AnalyzeReturned
  /\ upload_err = ERR_PROCESSING_FAILED
  /\ HasReadableText(doc)
  /\ gret = ANSWER_TEXT

\* "could not extract text"
NO_TEXT_NOTICE ==
  <<"c", "o", "u", "l", "d", " ", "n", "o", "t", " ", "e", "x", "t", "r", "a", "c", "t", " ",
    "t", "e", "x", "t">>

\* C16: when the upload attempt fails and local extraction yields no text,
\* the extractor raising included, analyze_document returns a non-empty
\* message that contains the upload error and states the extraction failure,
\* and makes no generation call.
Thm_C16_DoubleFailureIsReported ==
  AnalyzeReturned /\ upload_err # <<>> /\ ~HasReadableText(doc) =>
    /\ gret # <<>>
    /\ Occurs(upload_err, gret)
    /\ Occurs(NO_TEXT_NOTICE, gret)
    /\ EventsOf(glog, "generate") = <<>>

Wit_C16_UnreadableAfterRetriesExhausted ==
  /\ AnalyzeReturned
  /\ ~doc.readable
  /\ upload_err = ERR_429
  /\ Len(EventsOf(glog, "sleep")) = max_retries

\* C17: the temporary file created for the upload attempt no longer exists
\* when analyze_document returns, on every exit path.
CE_C17_TemporaryFileIsRemoved ==
  AnalyzeReturned => ~tmp.exists

\* C24: every call of analyze_document eventually returns a response,
\* whatever the upload service does, an uploaded file whose state stays
\* PROCESSING included: the polling of the file state is bounded.
CE_C24_AnalyzeDocumentReturns == (entry = "analyze_document") ~> AnalyzeReturned

(***************************************************************************)
(* Properties of the helper functions (specification SpecHelpers).         *)
(***************************************************************************)
ExtractApplied == fn_in.fn = "_extract_tickers" /\ fn_out.done

UpperCased(s) == [i \in 1..Len(s) |-> UpperChar(s[i])]

CommaPositions(s) == {i \in 1..Len(s) : s[i] = ","}

\* the position of the k-th comma of s; 0 before the first token, one past
\* the end after the last
Cut(s, k) ==
  IF k = 0 THEN 0
  ELSE IF k > Cardinality(CommaPositions(s)) THEN Len(s) + 1
  ELSE CHOOSE i \in CommaPositions(s) :
         Cardinality({j \in CommaPositions(s) : j < i}) = k - 1

\* the k-th token of s, between its commas
Token(s, k) == SubSeq(s, Cut(s, k - 1) + 1, Cut(s, k) - 1)

\* a token without its leading and trailing whitespace
Trimmed(t) ==
  LET ink == {i \in 1..Len(t) : t[i] \notin Whitespace}
  IN  IF ink = {} THEN <<>>
      ELSE SubSeq(t, CHOOSE i \in ink : \A j \in ink : i <= j,
                     CHOOSE i \in ink : \A j \in ink : i >= j)

Alphabetic(t) == t # <<>> /\ \A i \in 1..Len(t) : t[i] \in Letters

\* the trimmed tokens of s that are entirely alphabetic, in their order
AlphabeticTokens(s) ==
  SelectSeq([k \in 1..(Cardinality(CommaPositions(s)) + 1) |-> Trimmed(Token(s, k))],
            Alphabetic)

\* C11 as stated: _extract_tickers returns the alphabetic trimmed tokens of
\* the upper-cased output, in order and with duplicates, and the empty
\* TickerSet for an output equal to NONE in any letter case or empty.
CE_C11_TokensUnlessOutputEqualsNone ==
  ExtractApplied =>
    fn_out.value = IF UpperCased(fn_in.arg) = NONE_LITERAL \/ fn_in.arg = <<>> THEN <<>>
                   ELSE AlphabeticTokens(UpperCased(fn_in.arg))

\* C11 amended: the same, the empty TickerSet being returned for an output
\* that, once its leading and trailing whitespace is removed, equals NONE in
\* any letter case or is empty.
Thm_C11_TokensUnlessTrimmedOutputIsNone ==
  ExtractApplied =>
    fn_out.value =
      IF Trimmed(UpperCased(fn_in.arg)) \in {NONE_LITERAL, <<>>} THEN <<>>
      ELSE AlphabeticTokens(UpperCased(fn_in.arg))

Wit_C11_NumericTokenDropped ==
  /\ ExtractApplied
  /\ fn_in.arg = RAW_EXAMPLE
  /\ fn_out.value = <<<<"A", "A", "P", "L">>, <<"G", "O", "O", "G", "L">>>>

PercentageApplied == fn_in.fn = "format_percentage" /\ fn_out.done

DigitValue(c) ==
  CASE c = "0" -> 0 [] c = "1" -> 1 [] c = "2" -> 2 [] c = "3" -> 3 [] c = "4" -> 4
    [] c = "5" -> 5 [] c = "6" -> 6 [] c = "7" -> 7 [] c = "8" -> 8 [] c = "9" -> 9

IsDigits(chars) ==
  /\ chars # <<>>
  /\ \A i \in 1..Len(chars) : chars[i] \in {"0", "1", "2", "3", "4", "5", "6", "7", "8", "9"}

RECURSIVE NumberRead(_)
NumberRead(chars) ==
  IF chars = <<>> THEN 0
  ELSE 10 * NumberRead(SubSeq(chars, 1, Len(chars) - 1)) + DigitValue(chars[Len(chars)])

Unsigned(text) == IF text # <<>> /\ Head(text) = "-" THEN Tail(text) ELSE text

\* text is an optional minus sign, digits, a decimal point and exactly
\* `places` digits
IsFixed(text, places) ==
  LET u == Unsigned(text)
  IN  /\ Len(u) >= places + 2
      /\ u[Len(u) - places] = "."
      /\ IsDigits(SubSeq(u, 1, Len(u) - places - 1))
      /\ IsDigits(SubSeq(u, Len(u) - places + 1, Len(u)))

\* the number a fixed-point text denotes, in units of its last decimal
FixedValue(text, places) ==
  LET u == Unsigned(text)
      magnitude == NumberRead(SubSeq(u, 1, Len(u) - places - 1)
                              \o SubSeq(u, Len(u) - places + 1, Len(u)))
  IN  IF u = text THEN magnitude ELSE -magnitude

\* the text without its last character
ButLast(text) == SubSeq(text, 1, Len(text) - 1)

\* C18: format_percentage renders a value of magnitude below 1 as the value
\* times 100 and a value of magnitude 1 or more as the value itself, both
\* with two decimals and a percent sign, and a missing value as N/A; 0.0543
\* gives 5.43% and 54.3 gives 54.30%.
Thm_C18_PercentageScaledBelowOne ==
  PercentageApplied =>
    LET val == fn_in.arg
        text == fn_out.value
    IN  /\ val.none => text = <<"N", "/", "A">>
        /\ ~val.none =>
             /\ text # <<>> /\ text[Len(text)] = "%"
             /\ IsFixed(ButLast(text), 2)
             /\ Abs(val.tt) < 10000 => FixedValue(ButLast(text), 2) = val.tt
             /\ Abs(val.tt) >= 10000 =>
                  Abs(100 * FixedValue(ButLast(text), 2) - val.tt) < 50
        /\ val = Percent(543) => text = <<"5", ".", "4", "3", "%">>
        /\ val = Percent(543000) => text = <<"5", "4", ".", "3", "0", "%">>

Wit_C18_MagnitudeOneRenderedUnchanged ==
  /\ PercentageApplied
  /\ fn_in.arg = Percent(10000)
  /\ fn_out.value = <<"1", ".", "0", "0", "%">>

LargeNumberApplied == fn_in.fn = "format_large_number" /\ fn_out.done

PowerOfTen(k) == [i \in 1..(k + 1) |-> IF i = 1 THEN 1 ELSE 0]

\* a >= b for numbers given by their decimal digits, a without leading zeros
DigitsAtLeast(a, b) ==
  \/ Len(a) > Len(b)
  \/ /\ Len(a) = Len(b)
     /\ \/ a = b
        \/ \E i \in 1..Len(a) : a[i] > b[i] /\ \A j \in 1..(i - 1) : a[j] = b[j]

RECURSIVE DigitsRead(_)
DigitsRead(digits) ==
  IF digits = <<>> THEN 0
  ELSE 10 * DigitsRead(SubSeq(digits, 1, Len(digits) - 1)) + digits[Len(digits)]

\* the power of ten the claim divides by: the largest threshold the
\* magnitude reaches, 0 below 1e3
Scale(digits) ==
  IF DigitsAtLeast(digits, PowerOfTen(12)) THEN 12
  ELSE IF DigitsAtLeast(digits, PowerOfTen(9)) THEN 9
  ELSE IF DigitsAtLeast(digits, PowerOfTen(6)) THEN 6
  ELSE IF DigitsAtLeast(digits, PowerOfTen(3)) THEN 3
  ELSE 0

Suffix(k) ==
  CASE k = 12 -> <<"T">> [] k = 9 -> <<"B">> [] k = 6 -> <<"M">> [] k = 3 -> <<"K">>
    [] k = 0 -> <<>>

Decimals(k) == IF k = 3 THEN 1 ELSE 2

\* digits / 10^k to the given number of decimals, in units of the last
\* decimal, rounded to the nearest
Divided(digits, k, places) ==
  IF k = 0 THEN 100 * DigitsRead(digits)
  ELSE LET cut == Len(digits) - (k - places)
           rest == SubSeq(digits, cut + 1, Len(digits))
           half == <<5>> \o [i \in 1..(k - places - 1) |-> 0]
       IN  DigitsRead(SubSeq(digits, 1, cut)) + (IF DigitsAtLeast(rest, half) THEN 1 ELSE 0)

\* C19: format_large_number renders a number as a currency symbol, the
\* number divided by the largest of 1e12, 1e9, 1e6, 1e3 its magnitude
\* reaches (each inclusive) with two decimals (one for 1e3), and the suffix
\* T, B, M or K of that threshold; below 1e3 the number itself with two
\* decimals and no suffix; a missing value as N/A; 1_500_000_000_000 gives
\* $1.50T.
Thm_C19_SuffixByInclusiveThreshold ==
  LargeNumberApplied =>
    LET num == fn_in.arg
        text == fn_out.value
        k == Scale(num.digits)
        body == SubSeq(text, 2, Len(text) - Len(Suffix(k)))
    IN  /\ num.none => text = <<"N", "/", "A">>
        /\ ~num.none =>
             /\ Len(text) >= 5 /\ Head(text) = "$"
             /\ SubSeq(text, Len(text) - Len(Suffix(k)) + 1, Len(text)) = Suffix(k)
             /\ IsFixed(body, Decimals(k))
             /\ Abs(FixedValue(body, Decimals(k))) = Divided(num.digits, k, Decimals(k))
             /\ (Unsigned(body) # body) = (num.negative /\ num.digits # <<0>>)
        /\ num = Number(FALSE, <<1, 5>> \o Zeros(11)) =>
             text = <<"$", "1", ".", "5", "0", "T">>

Wit_C19_ExactlyOneTrillion ==
  /\ LargeNumberApplied
  /\ fn_in.arg = Number(FALSE, PowerOfTen(12))
  /\ fn_out.value = <<"$", "1", ".", "0", "0", "T">>

(***************************************************************************)
(* Properties of process_query when the ticker extraction fails            *)
(* (specification Spec).                                                   *)
(***************************************************************************)
BeginsWith(s, prefix) == Len(s) >= Len(prefix) /\ SubSeq(s, 1, Len(prefix)) = prefix

ExtractionFailed ==
  /\ pc \notin {"start", "extract"}
  /\ BeginsWith(env.rawTickers,
                <<"E", "r", "r", "o", "r", " ", "g", "e", "n", "e", "r", "a", "t", "i", "n", "g",
                  " ", "r", "e", "s", "p", "o", "n", "s", "e", ":", " ">>)

\* C20: when the generation call of _extract_tickers fails and generate
\* returns 'Error generating response: <error text>', _extract_tickers
\* returns the empty TickerSet whatever the error text, no exception leaves
\* the extraction, and process_query takes the zero-ticker generic route.
CE_C20_FailedExtractionYieldsNoTickers ==
  ExtractionFailed /\ exc.origin # "status_callback" =>
    /\ tickers = <<>>
    /\ exc.origin # "_extract_tickers"
    /\ Routed => route = RouteTo("GENERAL", "generate", <<>>)

(***************************************************************************)
(* Properties of the activity log and of the generation calls of           *)
(* process_query (specification Spec).                                     *)
(***************************************************************************)
\* the rows of the agent_logs table with the given status
RowsWith(status) == SelectSeq(agent_logs, LAMBDA row : row.status = status)

\* C21: no run leaves a STARTED activity-log entry without its COMPLETED
\* entry: when process_query has ended, on any route and whatever the Data
\* Provider and the generation calls answered, every STARTED row of the
\* table is matched by a COMPLETED row of the same label and intent.
CE_C21_StartedIsFollowedByCompleted ==
  pc \in {"done", "raised"} /\ callback \in {"none", "ok"} =>
    /\ Len(RowsWith("STARTED")) = Len(RowsWith("COMPLETED"))
    /\ \A k \in 1..Len(RowsWith("STARTED")) :
         /\ RowsWith("COMPLETED")[k].ticker = RowsWith("STARTED")[k].ticker
         /\ RowsWith("COMPLETED")[k].agent = RowsWith("STARTED")[k].agent

\* the generation calls of this run, in order
GenerateCalls == SelectSeq(trace, LAMBDA ev : ev.op = "generate")

\* C22: every run of process_query issues exactly two classification
\* generation calls, the ticker extraction then the intent classification,
\* followed by at most one answer-generation call: never two, the
\* single-stock composite included, and exactly one unless the Data Provider
\* answered with its error sentinel and the operation short-circuited.
CE_C22_TwoClassificationsThenOneAnswer ==
  pc \in {"done", "raised"} /\ callback \in {"none", "ok"} =>
    /\ Len(GenerateCalls) \in {2, 3}
    /\ GenerateCalls[1].info = "extract_tickers"
    /\ GenerateCalls[2].info = "classify_intent"
    /\ Len(AnswerCalls) = Len(GenerateCalls) - 2
    /\ env.provider # "error" => Len(AnswerCalls) = 1

MultiCompanyOps == {"compare_risks", "generate_comparison_report", "compare_with_ai"}

\* the company entries of a prompt, one per company the prompt describes
CompanyBlocks(prompt) == SelectSeq(prompt, LAMBDA item : item.field = "company")

\* C23: for a TickerSet of n elements, duplicates included, the prompt built
\* by compare_risks, generate_comparison_report or compare_with_ai holds
\* exactly n company blocks, one per element of the TickerSet.
CE_C23_OneBlockPerTicker ==
  OperationReturned /\ route.op \in MultiCompanyOps =>
    /\ Len(AnswerCalls) = 1
    /\ Len(CompanyBlocks(AnswerCalls[1].prompt)) = Len(tickers)

(***************************************************************************)
(* Properties of get_stock_info and get_key_metrics (specification         *)
(* SpecHelpers).                                                           *)
(***************************************************************************)
StockInfoApplied == fn_in.fn = "get_stock_info" /\ fn_out.done

\* the fetch yields a dict with one of the meaningful keys
HasMeaningfulKey(fetch) ==
  /\ ~fetch.raises
  /\ \E k \in {"currentPrice", "marketCap", "shortName", "longName", "sector"} :
       k \in DOMAIN fetch.info

\* the first fetch among 1..last that yields a meaningful key, 0 when none does
FirstMeaningful(upstream, last) ==
  LET good == {i \in 1..last : HasMeaningfulKey(upstream[i])}
  IN  IF good = {} THEN 0 ELSE CHOOSE i \in good : \A j \in good : i <= j

WithoutError(d) == [k \in DOMAIN d \ {"error"} |-> d[k]]

IsSentinel(d) == DOMAIN d = {"error"}

\* at most 4 fetches, a delay of 0.5 s after each fetch but the last, a result
\* that is a dict without error key or the sentinel, and a get_key_metrics
\* that passes the sentinel on or keeps keys of its field list only
FetchesAndResultShape(r) ==
  /\ r.fetches \in 1..4
  /\ r.sleeps = [i \in 1..(r.fetches - 1) |-> 5]
  /\ "error" \notin DOMAIN r.info \/ IsSentinel(r.info)
  /\ IF IsSentinel(r.info) THEN get_key_metrics(r.info) = r.info
     ELSE /\ DOMAIN get_key_metrics(r.info) \subseteq MetricKeys
          /\ "error" \notin DOMAIN get_key_metrics(r.info)

MaxCikCalls == 3

\* width of a CIK: str(entry["cik_str"]).zfill(10)
CIK_WIDTH == 10

\* Python's None as a return value
None == <<>>

\* str(n).zfill(width)
ZFill(n, width) ==
  LET digits == DecimalText(n)
  IN  [i \in 1..(width - Len(digits)) |-> "0"] \o digits

TickerEntry(symbol, cik_str) == [has_ticker |-> TRUE, ticker |-> symbol, cik_str |-> cik_str]
BrokenEntry == [has_ticker |-> FALSE, ticker |-> <<>>, cik_str |-> 0]

\* what the upstream answers to a request
Raising == [raises |-> TRUE, data |-> <<>>]
Table(entries) == [raises |-> FALSE, data |-> entries]
CompanyTickers ==
  {Raising,
   Table(<<>>),
   Table(<<TickerEntry(<<"A">>, 1090872), TickerEntry(<<"M", "S">>, 895421)>>),
   Table(<<TickerEntry(<<"m", "s">>, 77), TickerEntry(<<"M", "S">>, 895421)>>),
   Table(<<TickerEntry(<<"A">>, 5), BrokenEntry, TickerEntry(<<"M", "S">>, 895421)>>)}

\* the ticker arguments of the calls
TickerArgs ==
  {<<"A">>, <<"a">>, <<" ", "a", " ">>, <<"M", "S">>, <<"m", "s", " ">>, <<"Z">>}

\* for entry in data.values(): the first match returns; KeyError at an entry
\* without ticker key is caught by `except Exception: pass`
RECURSIVE FindCik(_, _)
FindCik(entries, symbol) ==
  IF entries = <<>> THEN None
  ELSE IF ~Head(entries).has_ticker THEN None
  ELSE IF Upper(Head(entries).ticker) = symbol THEN ZFill(Head(entries).cik_str, CIK_WIDTH)
  ELSE FindCik(Tail(entries), symbol)

CikResult(cache, requested, ret) == [cache |-> cache, requested |-> requested, ret |-> ret]

\* mutant of get_cik_from_ticker: the cache looked up under the ticker as
\* passed
get_cik_from_ticker_AsPassed(cache, ticker, upstream) ==
  LET symbol == Strip(Upper(ticker))
      cik == IF upstream.raises THEN None ELSE FindCik(upstream.data, symbol)
  IN  IF ticker \in DOMAIN cache THEN CikResult(cache, FALSE, cache[ticker])
      ELSE IF cik = None THEN CikResult(cache, TRUE, None)
      ELSE CikResult((symbol :> cik) @@ cache, TRUE, cik)

\* get_cik_from_ticker(ticker): the cache afterwards, whether a request was
\* issued, and the value returned
get_cik_from_ticker(cache, ticker, upstream) ==
  LET symbol == Strip(Upper(ticker))
      cik == IF upstream.raises THEN None ELSE FindCik(upstream.data, symbol)
  IN  IF symbol \in DOMAIN cache THEN CikResult(cache, FALSE, cache[symbol])
      ELSE IF cik = None THEN CikResult(cache, TRUE, None)
      ELSE CikResult((symbol :> cik) @@ cache, TRUE, cik)

CikCall(ticker, upstream, requested, ret) ==
  [ticker |-> ticker, upstream |-> upstream, requested |-> requested, ret |-> ret]

GetCikFromTicker ==
  /\ Len(sec_calls) < MaxCikCalls
  /\ \E ticker \in TickerArgs, upstream \in CompanyTickers :
       LET out == get_cik_from_ticker(_cik_cache, ticker, upstream)
       IN  /\ _cik_cache' = out.cache
           /\ sec_calls' = Append(sec_calls, CikCall(ticker, upstream, out.requested, out.ret))
  /\ UNCHANGED <<queryVars, riskVars, geminiVars, fnVars>>

InitSec ==
  /\ QueryIdle
  /\ metrics = <<>>
  /\ risk = NotAssessed
  /\ GeminiIdle
  /\ FnIdle
  /\ SecIdle

NextSec == GetCikFromTicker

SpecSec == InitSec /\ [][NextSec]_vars

(***************************************************************************)
(* Properties of the ticker-to-CIK cache (specification SpecSec).          *)
(***************************************************************************)
\* the upstream answer holds an entry for the symbol that the loop reaches
Resolves(upstream, symbol) ==
  /\ ~upstream.raises
  /\ \E i \in 1..Len(upstream.data) :
       /\ \A j \in 1..i : upstream.data[j].has_ticker
       /\ UpperCased(upstream.data[i].ticker) = symbol

\* what one call of get_cik_from_ticker does to the cache
CacheStep ==
  LET call == sec_calls'[Len(sec_calls')]
      key  == Trimmed(UpperCased(call.ticker))
      added == DOMAIN _cik_cache' \ DOMAIN _cik_cache
  IN  /\ \A t \in DOMAIN _cik_cache :
           t \in DOMAIN _cik_cache' /\ _cik_cache'[t] = _cik_cache[t]
      /\ key \in DOMAIN _cik_cache =>
           ~call.requested /\ call.ret = _cik_cache[key] /\ added = {}
      /\ key \notin DOMAIN _cik_cache =>
           /\ call.requested
           /\ IF Resolves(call.upstream, key)
              THEN added = {key} /\ call.ret # <<>> /\ _cik_cache'[key] = call.ret
              ELSE added = {} /\ call.ret = <<>>

\* C26: over any sequence of get_cik_from_ticker calls the cache is
\* insertion-only: no entry is ever removed or changed, only a successful
\* resolution is inserted (an unresolved ticker or a failed request leaves
\* the cache as it was and is looked up again), and a cached ticker, in any
\* letter case or with surrounding blanks, is answered from the cache
\* without a request.
Thm_C26_CacheIsInsertionOnly == [][sec_calls' # sec_calls => CacheStep]_vars

Wit_C26_CachedTickerInOtherCase ==
  /\ Len(sec_calls) = 3
  /\ sec_calls[1].ticker = <<"Z">> /\ sec_calls[1].requested /\ sec_calls[1].ret = <<>>
  /\ sec_calls[2].ticker = <<"A">> /\ sec_calls[2].requested
  /\ sec_calls[3].ticker = <<" ", "a", " ">> /\ ~sec_calls[3].requested
  /\ sec_calls[3].ret = <<"0", "0", "0", "1", "0", "9", "0", "8", "7", "2">>
  /\ sec_calls[3].upstream.raises

(***************************************************************************)
(* Properties of get_company_filings (specification SpecHelpers).          *)
(***************************************************************************)
FilingsApplied == fn_in.fn = "get_company_filings" /\ fn_out.done

IsFilingRecord(e) ==
  DOMAIN e = {"accession_number", "filing_date", "form", "primary_document", "description"}

\* the positions of the upstream filings of the given form
MatchingFilings(forms, filing_type) == {i \in 1..Len(forms) : forms[i] = filing_type}

\* a sequence of positions is increasing and holds the lowest ones of the set
FirstOf(positions, set) ==
  /\ \A k \in 1..Len(positions) : positions[k] \in set
  /\ \A k \in 1..(Len(positions) - 1) : positions[k] < positions[k + 1]
  /\ \A i \in set : (\E k \in 1..Len(positions) : positions[k] = i)
                    \/ (\A k \in 1..Len(positions) : positions[k] < i)

\* C27: get_company_filings returns at most count entries, each a
\* FilingRecord of the requested form, namely the first count matching
\* filings in upstream order, and the empty list for an unresolved ticker;
\* the count the composite reports is the number of FilingRecords.
CE_C27_OnlyFilingRecordsAreReturned ==
  FilingsApplied =>
    LET a == fn_in.arg
        filings == fn_out.value.filings
        matching == MatchingFilings(a.upstream.forms, a.filing_type)
    IN  /\ Len(filings) <= a.count
        /\ \A k \in 1..Len(filings) :
             IsFilingRecord(filings[k]) /\ filings[k].form = a.filing_type
        /\ a.cik = <<>> => filings = <<>>
        /\ a.cik # <<>> /\ a.upstream.listed >= Len(a.upstream.forms) =>
             /\ FirstOf([k \in 1..Len(filings) |-> filings[k].accession_number], matching)
             /\ Len(filings) = Min(a.count, Cardinality(matching))
        /\ fn_out.value.found = Len(SelectSeq(filings, IsFilingRecord))

(***************************************************************************)
(* Properties of extract_key_metrics_from_xbrl (specification              *)
(* SpecHelpers).                                                           *)
(***************************************************************************)
XbrlApplied ==
  fn_in.fn = "extract_key_metrics_from_xbrl" /\ fn_out.done /\ ~fn_in.arg.error

\* the output datapoints are annual datapoints of the list `values` of the
\* concept and unit type, without repetition, in ascending order of period
\* end, at most three, and none left out ends later than one put out
DrawnFrom(out, concept, unit, values) ==
  LET annual == {i \in 1..Len(values) :
                   values[i].form \in {"10-K", "10-K/A"} /\ ~values[i].framed}
  IN  /\ Len(out) = Min(3, Cardinality(annual))
      /\ Len(out) >= 1
      /\ \A n \in 1..Len(out) :
           /\ out[n].value[1] = concept
           /\ out[n].value[2] = unit
           /\ out[n].value[3] \in annual
           /\ out[n].period_end = values[out[n].value[3]].end
      /\ \A n, o \in 1..Len(out) : n # o => out[n].value # out[o].value
      /\ \A n \in 1..(Len(out) - 1) : out[n].period_end <= out[n + 1].period_end
      /\ \A i \in annual :
           \/ \E n \in 1..Len(out) : out[n].value[3] = i
           \/ values[i].end <= out[1].period_end

\* C28: everything extract_key_metrics_from_xbrl puts out comes from a
\* whitelisted concept: only datapoints of form 10-K or 10-K/A without a
\* frame field, sorted by period end ascending, at most the three with the
\* latest period end; a concept without such a datapoint and a concept
\* outside the whitelist contribute nothing.
Thm_C28_LatestThreeAnnualDatapoints ==
  XbrlApplied =>
    \A label \in DOMAIN fn_out.value :
      \E k \in 1..Len(key_items) :
        /\ key_items[k][2] = label
        /\ key_items[k][1] \in DOMAIN fn_in.arg.us_gaap
        /\ \E unit \in DOMAIN fn_in.arg.us_gaap[key_items[k][1]] :
             DrawnFrom(fn_out.value[label], key_items[k][1], unit,
                       fn_in.arg.us_gaap[key_items[k][1]][unit])

Wit_C28_FourYearsOutOfOrder ==
  /\ XbrlApplied
  /\ fn_in.arg = Facts("NetIncomeLoss" :> Units("NetIncomeLoss", "USD", FOUR_YEARS))
  /\ DOMAIN fn_out.value = {"net_income"}
  /\ [n \in 1..3 |-> fn_out.value["net_income"][n].period_end] = <<2, 3, 3>>
  /\ [n \in 1..3 |-> fn_out.value["net_income"][n].value[3]] = <<3, 1, 4>>

(***************************************************************************)
(* Properties of the local-extraction fallback of analyze_document         *)
(* (specification SpecGemini).                                             *)
(***************************************************************************)
\* the positions of the log where the fallback prompt is handed to generate,
\* right after the local extraction
FallbackPrompts ==
  {k \in 2..Len(glog) : glog[k].op = "generate" /\ glog[k - 1].op = "_extract_pdf_text"}

\* C29: the document text embedded in the fallback prompt is the extracted
\* text unchanged when it has at most 60,000 characters, and otherwise its
\* first 60,000 characters followed by the truncation marker; never more
\* than 60,000 characters of extracted text are embedded.
Thm_C29_FallbackTextCutAtSixtyThousand ==
  \A k \in FallbackPrompts :
    LET extracted == glog[k - 1].n
        embedded  == glog[k].text
    IN  /\ extracted <= 60000 =>
             embedded = [first |-> 1, last |-> extracted, then |-> <<>>]
        /\ extracted > 60000 =>
             embedded = [first |-> 1, last |-> 60000, then |-> TRUNCATION_MARKER]
        /\ embedded.last - embedded.first + 1 <= 60000
        /\ glog[k].n = embedded.last - embedded.first + 1 + Len(embedded.then)

Wit_C29_OneCharacterOverTheLimit ==
  /\ AnalyzeReturned
  /\ \E k \in FallbackPrompts :
       /\ glog[k - 1].n = 60001
       /\ glog[k].text.last = 60000
       /\ glog[k].text.then = TRUNCATION_MARKER

(***************************************************************************)
(* Properties of the prompt of comprehensive_risk_analysis (specification  *)
(* SpecHelpers).                                                           *)
(***************************************************************************)
RiskContextApplied == fn_in.fn = "comprehensive_risk_analysis" /\ fn_out.done

\* the line of FINANCIAL METRICS that shows the metric a category is scored on
FieldOf(category) ==
  CASE category = "leverage_risk" -> "Debt/Equity"
    [] category = "liquidity_risk" -> "Current Ratio"
    [] category = "valuation_risk" -> "P/E Ratio"
    [] OTHER -> "Beta"

ScoredOnListedLine == {"leverage_risk", "liquidity_risk", "valuation_risk", "volatility_risk"}

\* the levels the Risk Scorer assigns to the values the lines show, in the
\* order of the categories
LevelsOfListed(financial) ==
  LET line(c)  == CHOOSE i \in 1..Len(financial) : financial[i].field = FieldOf(c)
      scored   == SelectSeq(Categories,
                    LAMBDA c : c \in ScoredOnListedLine /\ ~financial[line(c)].na)
  IN  [i \in 1..Len(scored) |->
         Item(scored[i], CategoryIndicator(scored[i], financial[line(scored[i])].value).level)]

\* C30: the risk levels under QUANTITATIVE RISK ASSESSMENT are the levels
\* the Risk Scorer assigns to the metric values listed under FINANCIAL
\* METRICS in the same prompt, also when the Data Provider answers the two
\* metric fetches of the operation differently.
CE_C30_LevelsAreThoseOfTheListedMetrics ==
  RiskContextApplied =>
    fn_out.value.assessment = LevelsOfListed(fn_out.value.financial)

====
